---- MODULE Spec2Model ----
(***************************************************************************)
(* WintRides: the in-memory carpool store (lib/mockCarpools.ts) and the    *)
(* route handlers under app/api/carpools that call it.                     *)
(*                                                                         *)
(* A thread is a record; the store `carpools` is the module-level array.   *)
(* Every handler runs to completion (single-threaded event loop), so each  *)
(* call is one action.  `now` is the wall clock read by new Date(): every  *)
(* call is given a later instant than the one before it.  `last` records   *)
(* the most recent call: its operation, its arguments, the value the store *)
(* function returned, the HTTP status of the response and the target       *)
(* thread as it was before the call.                                       *)
(***************************************************************************)
EXTENDS Integers, Sequences, FiniteSets, TLC

VARIABLES carpools, now, last, users, campuses, today, westOfUTC, ulast, reqs, sessions, slast

vars == <<carpools, now, last, users, campuses, today, westOfUTC, ulast, reqs, sessions, slast>>

\* The carpool store, the session map and the user store.
carpoolVars == <<carpools, last, reqs>>
sessionVars == <<sessions, slast>>
userVars == <<users, campuses, today, westOfUTC, ulast, sessionVars>>

(***************************************************************************)
(* Bounds of the model.                                                    *)
(***************************************************************************)
MaxNow == 4
MaxCarpools == 3
MaxDay == 3
MaxSessions == 2

(***************************************************************************)
(* Values.                                                                 *)
(***************************************************************************)
\* An absent optional timestamp (confirmedAt, lockedAt, canceledAt); the clock starts at 1.
Undefined == 0
\* A request body without the seatsNeeded key.
NoSeats == -1
\* A missing or empty string field of a request body (falsy in JavaScript).
Empty == ""
\* A request body without the timeWindow key.
NoWindow == [start |-> Empty, end |-> Empty]
\* The thread id of a call that names no stored thread.
NoId == 0

UserIds == {"user_creator1", "user_creator2", "user_3"}

Statuses == {"DRAFT", "OPEN", "PENDING_CONFIRMATIONS", "CONFIRMED", "CANCELED", "EXPIRED", "COMPLETED"}

\* The record standing for "no thread" in last.before.
NoThread == [id |-> NoId]

\* String.prototype.trim on the strings the model sends.
Trim(s) ==
  CASE s = " " -> Empty
    [] s = " Campus Center " -> "Campus Center"
    [] s = " D1 " -> "D1"
    [] OTHER -> s

(***************************************************************************)
(* seedData: the two threads the store holds after module load.            *)
(***************************************************************************)
SeedCarpools(t) ==
  << [ id |-> 1, creatorId |-> "user_creator1", destination |-> "Boston Airport",
       date |-> "2026-01-02", timeWindow |-> [start |-> "16:30", end |-> "17:30"],
       pickupArea |-> "Campus Center", seatsNeeded |-> 2, targetGroupSize |-> 3,
       status |-> "OPEN",
       participants |-> << [userId |-> "user_creator1", joinedAt |-> t, confirmedAt |-> t, isCreator |-> TRUE] >>,
       interestedCount |-> 1, confirmedCount |-> 1,
       notes |-> "Looking for 2 more people to split the ride cost!",
       createdAt |-> t, updatedAt |-> t, lockedAt |-> Undefined, canceledAt |-> Undefined ],
     [ id |-> 2, creatorId |-> "user_creator2", destination |-> "New York City",
       date |-> "2026-01-03", timeWindow |-> [start |-> "08:00", end |-> "09:00"],
       pickupArea |-> "Ford Hall", seatsNeeded |-> 3, targetGroupSize |-> 4,
       status |-> "OPEN",
       participants |-> << [userId |-> "user_creator2", joinedAt |-> t, confirmedAt |-> t, isCreator |-> TRUE] >>,
       interestedCount |-> 1, confirmedCount |-> 1,
       notes |-> Empty,
       createdAt |-> t, updatedAt |-> t, lockedAt |-> Undefined, canceledAt |-> Undefined ] >>

(***************************************************************************)
(* Store functions.  Each takes the store cs and the instant t it reads    *)
(* from the clock and yields the new store and the index of the thread it  *)
(* returns (0 for null / undefined).                                       *)
(***************************************************************************)
\* carpools.find(c => c.id === id): index of the first match, 0 if none.
getCarpoolById(cs, id) ==
  IF \E i \in 1..Len(cs) : cs[i].id = id
    THEN CHOOSE i \in 1..Len(cs) : cs[i].id = id /\ \A j \in 1..(i-1) : cs[j].id # id
    ELSE 0

\* participants.find(p => p.userId === userId): index of the first match, 0 if none.
findParticipant(ps, userId) ==
  IF \E k \in 1..Len(ps) : ps[k].userId = userId
    THEN CHOOSE k \in 1..Len(ps) : ps[k].userId = userId /\ \A j \in 1..(k-1) : ps[j].userId # userId
    ELSE 0

\* participants.filter(p => p.confirmedAt).length
CountConfirmed(ps) == Cardinality({k \in 1..Len(ps) : ps[k].confirmedAt # Undefined})

\* generateId: an id no stored thread has.
generateId(cs) == Len(cs) + 1

\* createCarpool ignoring the status it is given.
createCarpool_AlwaysOpen(cs, data, t) ==
  LET creator == [userId |-> data.creatorId, joinedAt |-> t, confirmedAt |-> t, isCreator |-> TRUE]
      carpool == [ id |-> generateId(cs), creatorId |-> data.creatorId,
                   destination |-> data.destination, date |-> data.date,
                   timeWindow |-> data.timeWindow, pickupArea |-> data.pickupArea,
                   seatsNeeded |-> data.seatsNeeded, targetGroupSize |-> data.targetGroupSize,
                   status |-> "OPEN",
                   participants |-> << creator >>,
                   interestedCount |-> 1, confirmedCount |-> 1,
                   notes |-> data.notes,
                   createdAt |-> t, updatedAt |-> t,
                   lockedAt |-> Undefined, canceledAt |-> Undefined ]
  IN  [store |-> Append(cs, carpool), ret |-> Len(cs) + 1]

createCarpool(cs, data, t) ==
  LET creator == [userId |-> data.creatorId, joinedAt |-> t, confirmedAt |-> t, isCreator |-> TRUE]
      carpool == [ id |-> generateId(cs), creatorId |-> data.creatorId,
                   destination |-> data.destination, date |-> data.date,
                   timeWindow |-> data.timeWindow, pickupArea |-> data.pickupArea,
                   seatsNeeded |-> data.seatsNeeded, targetGroupSize |-> data.targetGroupSize,
                   status |-> IF data.status # Empty THEN data.status ELSE "OPEN",
                   participants |-> << creator >>,
                   interestedCount |-> 1, confirmedCount |-> 1,
                   notes |-> data.notes,
                   createdAt |-> t, updatedAt |-> t,
                   lockedAt |-> Undefined, canceledAt |-> Undefined ]
  IN  [store |-> Append(cs, carpool), ret |-> Len(cs) + 1]

\* addParticipant with interestedCount left as it was.
addParticipant_StaleCount(cs, carpoolId, userId, t) ==
  LET i == getCarpoolById(cs, carpoolId) IN
  IF i = 0 THEN [store |-> cs, ret |-> 0]
  ELSE IF \E k \in 1..Len(cs[i].participants) : cs[i].participants[k].userId = userId
    THEN [store |-> cs, ret |-> i]
  ELSE
    LET newParticipant == [userId |-> userId, joinedAt |-> t, confirmedAt |-> Undefined, isCreator |-> FALSE]
        ps == Append(cs[i].participants, newParticipant)
        c1 == [cs[i] EXCEPT !.participants = ps, !.updatedAt = t]
        c2 == IF c1.status = "OPEN" /\ c1.confirmedCount > 0
                THEN [c1 EXCEPT !.status = "PENDING_CONFIRMATIONS"]
                ELSE c1
    IN  [store |-> [cs EXCEPT ![i] = c2], ret |-> i]

\* addParticipant without the already-a-participant check.
addParticipant_NoDupCheck(cs, carpoolId, userId, t) ==
  LET i == getCarpoolById(cs, carpoolId) IN
  IF i = 0 THEN [store |-> cs, ret |-> 0]
  ELSE
    LET newParticipant == [userId |-> userId, joinedAt |-> t, confirmedAt |-> Undefined, isCreator |-> FALSE]
        ps == Append(cs[i].participants, newParticipant)
        c1 == [cs[i] EXCEPT !.participants = ps, !.interestedCount = Len(ps), !.updatedAt = t]
        c2 == IF c1.status = "OPEN" /\ c1.confirmedCount > 0
                THEN [c1 EXCEPT !.status = "PENDING_CONFIRMATIONS"]
                ELSE c1
    IN  [store |-> [cs EXCEPT ![i] = c2], ret |-> i]

\* addParticipant moving every OPEN thread to PENDING_CONFIRMATIONS.
addParticipant_AlwaysPending(cs, carpoolId, userId, t) ==
  LET i == getCarpoolById(cs, carpoolId) IN
  IF i = 0 THEN [store |-> cs, ret |-> 0]
  ELSE IF \E k \in 1..Len(cs[i].participants) : cs[i].participants[k].userId = userId
    THEN [store |-> cs, ret |-> i]
  ELSE
    LET newParticipant == [userId |-> userId, joinedAt |-> t, confirmedAt |-> Undefined, isCreator |-> FALSE]
        ps == Append(cs[i].participants, newParticipant)
        c1 == [cs[i] EXCEPT !.participants = ps, !.interestedCount = Len(ps), !.updatedAt = t]
        c2 == IF c1.status = "OPEN"
                THEN [c1 EXCEPT !.status = "PENDING_CONFIRMATIONS"]
                ELSE c1
    IN  [store |-> [cs EXCEPT ![i] = c2], ret |-> i]

\* addParticipant leaving the status as it was.
addParticipant_KeepsStatus(cs, carpoolId, userId, t) ==
  LET i == getCarpoolById(cs, carpoolId) IN
  IF i = 0 THEN [store |-> cs, ret |-> 0]
  ELSE IF findParticipant(cs[i].participants, userId) # 0 THEN [store |-> cs, ret |-> i]
  ELSE
    LET ps == Append(cs[i].participants,
                     [userId |-> userId, joinedAt |-> t, confirmedAt |-> Undefined, isCreator |-> FALSE])
        c1 == [cs[i] EXCEPT !.participants = ps, !.interestedCount = Len(ps), !.updatedAt = t]
    IN  [store |-> [cs EXCEPT ![i] = c1], ret |-> i]

addParticipant(cs, carpoolId, userId, t) ==
  LET i == getCarpoolById(cs, carpoolId) IN
  IF i = 0 THEN [store |-> cs, ret |-> 0]
  ELSE IF \E k \in 1..Len(cs[i].participants) : cs[i].participants[k].userId = userId
    THEN [store |-> cs, ret |-> i]
  ELSE
    LET newParticipant == [userId |-> userId, joinedAt |-> t, confirmedAt |-> Undefined, isCreator |-> FALSE]
        ps == Append(cs[i].participants, newParticipant)
        c1 == [cs[i] EXCEPT !.participants = ps, !.interestedCount = Len(ps), !.updatedAt = t]
        c2 == IF c1.status = "OPEN" /\ c1.confirmedCount > 0
                THEN [c1 EXCEPT !.status = "PENDING_CONFIRMATIONS"]
                ELSE c1
    IN  [store |-> [cs EXCEPT ![i] = c2], ret |-> i]

\* confirmParticipant locking the thread when the target size is reached.
confirmParticipant_AutoLock(cs, carpoolId, userId, t) ==
  LET i == getCarpoolById(cs, carpoolId) IN
  IF i = 0 THEN [store |-> cs, ret |-> 0]
  ELSE
    LET k == findParticipant(cs[i].participants, userId) IN
    IF k = 0 THEN [store |-> cs, ret |-> 0]
    ELSE IF cs[i].participants[k].confirmedAt # Undefined THEN [store |-> cs, ret |-> i]
    ELSE
      LET ps == [cs[i].participants EXCEPT ![k].confirmedAt = t]
          c1 == [cs[i] EXCEPT !.participants = ps, !.confirmedCount = CountConfirmed(ps), !.updatedAt = t]
          c2 == IF c1.confirmedCount > 0 /\ c1.confirmedCount < c1.targetGroupSize
                  THEN [c1 EXCEPT !.status = "PENDING_CONFIRMATIONS"]
                ELSE IF c1.confirmedCount >= c1.targetGroupSize
                  THEN [c1 EXCEPT !.status = "CONFIRMED"]
                ELSE c1
      IN  [store |-> [cs EXCEPT ![i] = c2], ret |-> i]

confirmParticipant(cs, carpoolId, userId, t) ==
  LET i == getCarpoolById(cs, carpoolId) IN
  IF i = 0 THEN [store |-> cs, ret |-> 0]
  ELSE
    LET k == findParticipant(cs[i].participants, userId) IN
    IF k = 0 THEN [store |-> cs, ret |-> 0]
    ELSE IF cs[i].participants[k].confirmedAt # Undefined THEN [store |-> cs, ret |-> i]
    ELSE
      LET ps == [cs[i].participants EXCEPT ![k].confirmedAt = t]
          c1 == [cs[i] EXCEPT !.participants = ps, !.confirmedCount = CountConfirmed(ps), !.updatedAt = t]
          c2 == IF c1.confirmedCount > 0 /\ c1.confirmedCount < c1.targetGroupSize
                  THEN [c1 EXCEPT !.status = "PENDING_CONFIRMATIONS"]
                ELSE IF c1.confirmedCount >= c1.targetGroupSize
                  THEN [c1 EXCEPT !.status = "PENDING_CONFIRMATIONS"]
                ELSE c1
      IN  [store |-> [cs EXCEPT ![i] = c2], ret |-> i]

\* unconfirmParticipant decrementing nothing: confirmedCount is left as it was.
unconfirmParticipant_StaleCount(cs, carpoolId, userId, t) ==
  LET i == getCarpoolById(cs, carpoolId) IN
  IF i = 0 THEN [store |-> cs, ret |-> 0]
  ELSE
    LET k == findParticipant(cs[i].participants, userId) IN
    IF k = 0 \/ cs[i].participants[k].confirmedAt = Undefined THEN [store |-> cs, ret |-> i]
    ELSE IF cs[i].status = "CONFIRMED" THEN [store |-> cs, ret |-> i]
    ELSE
      LET ps == [cs[i].participants EXCEPT ![k].confirmedAt = Undefined]
          c1 == [cs[i] EXCEPT !.participants = ps, !.updatedAt = t]
          c2 == IF c1.confirmedCount = 0
                  THEN [c1 EXCEPT !.status = "OPEN"]
                  ELSE [c1 EXCEPT !.status = "PENDING_CONFIRMATIONS"]
      IN  [store |-> [cs EXCEPT ![i] = c2], ret |-> i]

\* unconfirmParticipant without the refusal on a CONFIRMED thread.
unconfirmParticipant_NoLockGuard(cs, carpoolId, userId, t) ==
  LET i == getCarpoolById(cs, carpoolId) IN
  IF i = 0 THEN [store |-> cs, ret |-> 0]
  ELSE
    LET k == findParticipant(cs[i].participants, userId) IN
    IF k = 0 \/ cs[i].participants[k].confirmedAt = Undefined THEN [store |-> cs, ret |-> i]
    ELSE
      LET ps == [cs[i].participants EXCEPT ![k].confirmedAt = Undefined]
          c1 == [cs[i] EXCEPT !.participants = ps, !.confirmedCount = CountConfirmed(ps), !.updatedAt = t]
          c2 == IF c1.confirmedCount = 0
                  THEN [c1 EXCEPT !.status = "OPEN"]
                  ELSE [c1 EXCEPT !.status = "PENDING_CONFIRMATIONS"]
      IN  [store |-> [cs EXCEPT ![i] = c2], ret |-> i]

\* unconfirmParticipant that never reopens the thread.
unconfirmParticipant_StaysPending(cs, carpoolId, userId, t) ==
  LET i == getCarpoolById(cs, carpoolId) IN
  IF i = 0 THEN [store |-> cs, ret |-> 0]
  ELSE
    LET k == findParticipant(cs[i].participants, userId) IN
    IF k = 0 \/ cs[i].participants[k].confirmedAt = Undefined THEN [store |-> cs, ret |-> i]
    ELSE IF cs[i].status = "CONFIRMED" THEN [store |-> cs, ret |-> i]
    ELSE
      LET ps == [cs[i].participants EXCEPT ![k].confirmedAt = Undefined]
          c1 == [cs[i] EXCEPT !.participants = ps, !.confirmedCount = CountConfirmed(ps), !.updatedAt = t]
      IN  [store |-> [cs EXCEPT ![i] = [c1 EXCEPT !.status = "PENDING_CONFIRMATIONS"]], ret |-> i]

unconfirmParticipant(cs, carpoolId, userId, t) ==
  LET i == getCarpoolById(cs, carpoolId) IN
  IF i = 0 THEN [store |-> cs, ret |-> 0]
  ELSE
    LET k == findParticipant(cs[i].participants, userId) IN
    IF k = 0 \/ cs[i].participants[k].confirmedAt = Undefined THEN [store |-> cs, ret |-> i]
    ELSE IF cs[i].status = "CONFIRMED" THEN [store |-> cs, ret |-> i]
    ELSE
      LET ps == [cs[i].participants EXCEPT ![k].confirmedAt = Undefined]
          c1 == [cs[i] EXCEPT !.participants = ps, !.confirmedCount = CountConfirmed(ps), !.updatedAt = t]
          c2 == IF c1.confirmedCount = 0
                  THEN [c1 EXCEPT !.status = "OPEN"]
                  ELSE [c1 EXCEPT !.status = "PENDING_CONFIRMATIONS"]
      IN  [store |-> [cs EXCEPT ![i] = c2], ret |-> i]

\* lockCarpool without the creator check.
lockCarpool_AnyCaller(cs, carpoolId, creatorId, t) ==
  LET i == getCarpoolById(cs, carpoolId) IN
  IF i = 0 THEN [store |-> cs, ret |-> 0]
  ELSE IF cs[i].status # "PENDING_CONFIRMATIONS" /\ cs[i].status # "OPEN" THEN [store |-> cs, ret |-> 0]
  ELSE [store |-> [cs EXCEPT ![i] = [@ EXCEPT !.status = "CONFIRMED", !.lockedAt = t, !.updatedAt = t]],
        ret |-> i]

\* lockCarpool stamping updatedAt before it checks the status.
lockCarpool_StampFirst(cs, carpoolId, creatorId, t) ==
  LET i == getCarpoolById(cs, carpoolId) IN
  IF i = 0 \/ cs[i].creatorId # creatorId THEN [store |-> cs, ret |-> 0]
  ELSE IF cs[i].status # "PENDING_CONFIRMATIONS" /\ cs[i].status # "OPEN"
    THEN [store |-> [cs EXCEPT ![i] = [@ EXCEPT !.updatedAt = t]], ret |-> 0]
  ELSE [store |-> [cs EXCEPT ![i] = [@ EXCEPT !.status = "CONFIRMED", !.lockedAt = t, !.updatedAt = t]],
        ret |-> i]

lockCarpool(cs, carpoolId, creatorId, t) ==
  LET i == getCarpoolById(cs, carpoolId) IN
  IF i = 0 \/ cs[i].creatorId # creatorId THEN [store |-> cs, ret |-> 0]
  ELSE IF cs[i].status # "PENDING_CONFIRMATIONS" /\ cs[i].status # "OPEN" THEN [store |-> cs, ret |-> 0]
  ELSE [store |-> [cs EXCEPT ![i] = [@ EXCEPT !.status = "CONFIRMED", !.lockedAt = t, !.updatedAt = t]],
        ret |-> i]

\* cancelCarpool with lockCarpool's status check copied into it.
cancelCarpool_OpenOnly(cs, carpoolId, creatorId, t) ==
  LET i == getCarpoolById(cs, carpoolId) IN
  IF i = 0 \/ cs[i].creatorId # creatorId THEN [store |-> cs, ret |-> 0]
  ELSE IF cs[i].status # "PENDING_CONFIRMATIONS" /\ cs[i].status # "OPEN" THEN [store |-> cs, ret |-> 0]
  ELSE [store |-> [cs EXCEPT ![i] = [@ EXCEPT !.status = "CANCELED", !.canceledAt = t, !.updatedAt = t]],
        ret |-> i]

cancelCarpool(cs, carpoolId, creatorId, t) ==
  LET i == getCarpoolById(cs, carpoolId) IN
  IF i = 0 \/ cs[i].creatorId # creatorId THEN [store |-> cs, ret |-> 0]
  ELSE [store |-> [cs EXCEPT ![i] = [@ EXCEPT !.status = "CANCELED", !.canceledAt = t, !.updatedAt = t]],
        ret |-> i]

(***************************************************************************)
(* Calls.                                                                  *)
(***************************************************************************)
\* The thread a call names, as stored in cs (NoThread if none).
\* updateCarpool: { ...carpools[index], ...updates, updatedAt }.  updates is a record
\* with the keys the body carries; each key it shares with the thread replaces the
\* thread's value.
updateCarpool(cs, id, updates, t) ==
  LET i == getCarpoolById(cs, id) IN
  IF i = 0 THEN [store |-> cs, ret |-> 0]
  ELSE
    LET spread == [f \in DOMAIN cs[i] |-> IF f \in DOMAIN updates THEN updates[f] ELSE cs[i][f]]
    IN  [store |-> [cs EXCEPT ![i] = [spread EXCEPT !.updatedAt = t]], ret |-> i]

\* c.destination.toLowerCase().includes(filters.destination.toLowerCase()) on the
\* destinations and search words the model uses.
DestinationIncludes(destination, word) ==
  \/ word = Empty
  \/ destination = "Boston Airport" /\ word \in {"boston", "Airport"}
  \/ destination = "New York City" /\ word \in {"new york"}

\* filterCarpools: status is the set of wanted statuses ({} when the key is absent),
\* destination and date are Empty when absent.
filterCarpools(cs, filters) ==
  LET keep(c) ==
        /\ ~(filters.status # {} /\ c.status \notin filters.status)
        /\ ~(filters.destination # Empty /\ ~DestinationIncludes(c.destination, filters.destination))
        /\ ~(filters.date # Empty /\ c.date # filters.date)
  IN  SelectSeq(cs, keep)

\* The strings the threads of the model carry as date or timeWindow.start, in the
\* order String.prototype.localeCompare puts them (digit by digit: "16:30" before "9:00").
CollationOrder == << "08:00", "16:30", "2026-01-02", "2026-01-03", "9:00" >>

CollationIndex(s) == CHOOSE k \in 1..Len(CollationOrder) : CollationOrder[k] = s

\* a.localeCompare(b): negative, zero or positive.
localeCompare(a, b) ==
  IF CollationIndex(a) < CollationIndex(b) THEN -1
  ELSE IF CollationIndex(a) > CollationIndex(b) THEN 1
  ELSE 0

\* The comparator with the start of the time window left out.
compareBySoonest_DateOnly(a, b) == localeCompare(a.date, b.date)

\* The comparator sortCarpoolsBySoonest hands to sort.
compareBySoonest(a, b) ==
  LET dateCompare == localeCompare(a.date, b.date) IN
  IF dateCompare # 0 THEN dateCompare
  ELSE localeCompare(a.timeWindow.start, b.timeWindow.start)

\* Array.prototype.sort with that comparator: a stable sort, written as an insertion
\* sort that puts each element after the elements that do not come after it.
RECURSIVE InsertSorted(_, _)
InsertSorted(s, x) ==
  IF s = << >> THEN << x >>
  ELSE IF compareBySoonest(s[Len(s)], x) <= 0 THEN Append(s, x)
  ELSE Append(InsertSorted(SubSeq(s, 1, Len(s) - 1), x), s[Len(s)])

RECURSIVE ArraySort(_)
ArraySort(s) ==
  IF s = << >> THEN << >>
  ELSE InsertSorted(ArraySort(SubSeq(s, 1, Len(s) - 1)), s[Len(s)])

\* sortCarpoolsBySoonest: [...carpools].sort(...).  input is the array it was given as
\* it stands after the call, ret the array it returns.
sortCarpoolsBySoonest(cs) == [input |-> cs, ret |-> ArraySort(cs)]

\* getAllCarpools: a copy of the store.
getAllCarpools(cs) == cs

ThreadOf(cs, id) == IF getCarpoolById(cs, id) = 0 THEN NoThread ELSE cs[getCarpoolById(cs, id)]

\* The record of a call.
Call(op, id, userId, ret, code) ==
  [op |-> op, carpoolId |-> id, userId |-> userId, ret |-> ret, code |-> code,
   before |-> ThreadOf(carpools, id)]

\* Thread ids a request may name: the stored ones and one that names no thread.
IdInputs == {NoId} \cup {carpools[i].id : i \in 1..Len(carpools)}
\* User ids a request body may carry, the missing one included.
UserInputs == UserIds \cup {Empty}

(***************************************************************************)
(* lib/mockUsers.ts and lib/licenseExpiration.ts: the user store.          *)
(* A date string "YYYY-MM-DD" is modelled by the number of the calendar    *)
(* day it names, a timestamp by the value of the clock at the call.  A     *)
(* store function returns the store after the call, the index of the user  *)
(* it returns (0 for null) and the message of the Error it throws (Empty   *)
(* if it throws none).  Password, pseudonym, tokens and ride counters of a *)
(* user take no part in the driver rules and are left out.                 *)
(***************************************************************************)
\* null as a day count: a value no day count of the model takes.
Null == -1000
NoDriverInfo == [verified |-> FALSE]
NoAlerts == [oneWeek |-> Undefined, threeDays |-> Undefined, oneDay |-> Undefined]
AlertTypes == {"oneWeek", "threeDays", "oneDay"}
NoUser == [id |-> NoId]

\* seedData of the user store: one campus, no user.
SeedCampuses == << [id |-> 1, name |-> "Example University Campus", emailDomain |-> "example.edu"] >>

\* String.prototype.toLowerCase on the strings the model sends.
Lower(s) ==
  CASE s = "Ann" -> "ann"
    [] s = "Example.EDU" -> "example.edu"
    [] s = "Other.EDU" -> "other.edu"
    [] OTHER -> s

\* domain?.endsWith(".edu") on the lower-cased domains the model sends.
isValidCampusEmail(email) == Lower(email.domain) \in {"example.edu", "other.edu"}

\* The campus name getCampusFromEmail derives from a domain.
CampusName(domain) ==
  CASE domain = "other.edu" -> "Other Campus"
    [] OTHER -> "Example Campus"

\* getCampusFromEmail: the campus of the domain, pushed first if there is none.
getCampusFromEmail(cps, email) ==
  LET domain == Lower(email.domain) IN
  IF \E i \in 1..Len(cps) : cps[i].emailDomain = domain
    THEN [campuses |-> cps,
          ret |-> CHOOSE i \in 1..Len(cps) :
                    cps[i].emailDomain = domain /\ \A j \in 1..(i-1) : cps[j].emailDomain # domain]
    ELSE [campuses |-> Append(cps, [id |-> Len(cps) + 1, name |-> CampusName(domain),
                                    emailDomain |-> domain]),
          ret |-> Len(cps) + 1]

\* users.find(u => u.id === id): index of the first match, 0 if none.
getUserById(us, id) ==
  IF \E i \in 1..Len(us) : us[i].id = id
    THEN CHOOSE i \in 1..Len(us) : us[i].id = id /\ \A j \in 1..(i-1) : us[j].id # id
    ELSE 0

LowerEmail(email) == [local |-> Lower(email.local), domain |-> Lower(email.domain)]

\* users.find(u => u.email.toLowerCase() === email.toLowerCase())
getUserByEmail(us, email) ==
  IF \E i \in 1..Len(us) : LowerEmail(us[i].email) = LowerEmail(email)
    THEN CHOOSE i \in 1..Len(us) : LowerEmail(us[i].email) = LowerEmail(email)
    ELSE 0

\* generateId of the user store: an id no stored user has.
generateUserId(us) == Len(us) + 1

\* new Date(date) followed by setHours(0, 0, 0, 0): a date-only string is read
\* as midnight UTC, which west of UTC is an instant of the local day before;
\* setHours then moves it to the local midnight of that day.  Daylight-saving
\* shifts are not modelled.
LocalDay(date, west) == IF west THEN date - 1 ELSE date

isLicenseExpired(licenseExpirationDate, day, west) ==
  IF licenseExpirationDate = Undefined THEN FALSE
  ELSE LocalDay(licenseExpirationDate, west) < day

\* Math.ceil((expiration - today) / one day) of two local midnights.
DaysUntil(licenseExpirationDate, day, west) == LocalDay(licenseExpirationDate, west) - day

\* getLicenseExpirationStatus with the three-day window closed at one day.
getLicenseExpirationStatus_ThreeDaysFromOne(driverInfo, day, west) ==
  IF driverInfo = NoDriverInfo \/ driverInfo.licenseExpirationDate = Undefined
    THEN [isExpired |-> FALSE, daysUntilExpiration |-> Null,
          alertsNeeded |-> [oneWeek |-> FALSE, threeDays |-> FALSE, oneDay |-> FALSE]]
    ELSE
      LET daysUntilExpiration == DaysUntil(driverInfo.licenseExpirationDate, day, west)
          alertsSent == driverInfo.expirationAlertsSent
      IN  [isExpired |-> daysUntilExpiration < 0,
           daysUntilExpiration |-> IF daysUntilExpiration < 0 THEN Null ELSE daysUntilExpiration,
           alertsNeeded |->
             [oneWeek |-> daysUntilExpiration <= 7 /\ daysUntilExpiration > 3
                            /\ alertsSent.oneWeek = Undefined,
              threeDays |-> daysUntilExpiration <= 3 /\ daysUntilExpiration >= 1
                            /\ alertsSent.threeDays = Undefined,
              oneDay |-> daysUntilExpiration = 1 /\ alertsSent.oneDay = Undefined]]

getLicenseExpirationStatus(driverInfo, day, west) ==
  IF driverInfo = NoDriverInfo \/ driverInfo.licenseExpirationDate = Undefined
    THEN [isExpired |-> FALSE, daysUntilExpiration |-> Null,
          alertsNeeded |-> [oneWeek |-> FALSE, threeDays |-> FALSE, oneDay |-> FALSE]]
    ELSE
      LET daysUntilExpiration == DaysUntil(driverInfo.licenseExpirationDate, day, west)
          alertsSent == driverInfo.expirationAlertsSent
      IN  [isExpired |-> daysUntilExpiration < 0,
           daysUntilExpiration |-> IF daysUntilExpiration < 0 THEN Null ELSE daysUntilExpiration,
           alertsNeeded |->
             [oneWeek |-> daysUntilExpiration <= 7 /\ daysUntilExpiration > 3
                            /\ alertsSent.oneWeek = Undefined,
              threeDays |-> daysUntilExpiration <= 3 /\ daysUntilExpiration > 1
                            /\ alertsSent.threeDays = Undefined,
              oneDay |-> daysUntilExpiration = 1 /\ alertsSent.oneDay = Undefined]]

\* markExpirationAlertSent forgetting the alerts sent before.
markExpirationAlertSent_Overwrite(driverInfo, alertType, t) ==
  [driverInfo EXCEPT !.expirationAlertsSent =
     [a \in AlertTypes |-> IF a = alertType THEN t ELSE Undefined]]

\* markExpirationAlertSent: a copy of driverInfo with alertType stamped.
markExpirationAlertSent(driverInfo, alertType, t) ==
  [driverInfo EXCEPT !.expirationAlertsSent =
     [a \in AlertTypes |-> IF a = alertType THEN t ELSE driverInfo.expirationAlertsSent[a]]]

(***************************************************************************)
(* lib/licenseValidation.ts and updateLicenseDetails of                    *)
(* lib/licenseExpiration.ts, as the specification describes them.          *)
(***************************************************************************)
RecognizedStates == {"MA"}

isValidIssuingState(issuingState) == issuingState \in RecognizedStates

normalizeExpirationDate(licenseExpirationDate) == licenseExpirationDate

\* The message of the first failing field, Empty if every field passes.
validateDriverLicenseInput(input, day) ==
  IF input.legalName = Empty THEN "Legal name is required"
  ELSE IF input.licenseNumber = Empty THEN "License number is required"
  ELSE IF input.licenseExpirationDate = Undefined THEN "Expiration date is required"
  ELSE IF input.licenseExpirationDate < day THEN "Expiration date is outside the accepted window"
  ELSE IF ~isValidIssuingState(input.issuingState) THEN "Issuing state is not recognized"
  ELSE Empty

\* Replaces the license fields, restarts the alert cycle, keeps verifiedAt.
updateLicenseDetails(driverInfo, licenseNumber, licenseExpirationDate, issuingState, t) ==
  [driverInfo EXCEPT !.licenseNumber = licenseNumber,
                     !.licenseExpirationDate = licenseExpirationDate,
                     !.issuingState = issuingState,
                     !.verified = TRUE,
                     !.verifiedAt = IF driverInfo.verifiedAt = Undefined THEN t ELSE driverInfo.verifiedAt,
                     !.lastVerifiedAt = t,
                     !.expirationAlertsSent = NoAlerts]

\* The DriverInfo createUser and enableDriverCapability build from validated input.
NewDriverInfo(input, t) ==
  [legalName |-> Trim(input.legalName),
   licenseNumber |-> Trim(input.licenseNumber),
   issuingState |-> IF isValidIssuingState(input.issuingState) THEN input.issuingState ELSE Empty,
   licenseExpirationDate |-> normalizeExpirationDate(input.licenseExpirationDate),
   verified |-> TRUE,
   verifiedAt |-> t,
   lastVerifiedAt |-> t,
   expirationAlertsSent |-> NoAlerts]

createUser(us, cps, data, t, day) ==
  IF ~isValidCampusEmail(data.email)
    THEN [users |-> us, campuses |-> cps, ret |-> 0,
          error |-> "Email must be from a valid campus domain (.edu)"]
  ELSE IF getUserByEmail(us, data.email) # 0
    THEN [users |-> us, campuses |-> cps, ret |-> 0,
          error |-> "User with this email already exists"]
  ELSE
    LET campus == getCampusFromEmail(cps, data.email)
        hasDriverDetails == \/ data.legalName # Empty
                            \/ data.licenseNumber # Empty
                            \/ data.licenseExpirationDate # Undefined
                            \/ data.issuingState # Empty
        licenseError == validateDriverLicenseInput(data, day)
    IN
    IF hasDriverDetails /\ licenseError # Empty
      THEN [users |-> us, campuses |-> campus.campuses, ret |-> 0, error |-> licenseError]
      ELSE
        LET driverInfo == IF hasDriverDetails THEN NewDriverInfo(data, t) ELSE NoDriverInfo
            user == [id |-> generateUserId(us),
                     email |-> LowerEmail(data.email),
                     campusId |-> campus.campuses[campus.ret].id,
                     isDriverAvailable |-> driverInfo # NoDriverInfo,
                     driverInfo |-> driverInfo,
                     emailVerified |-> FALSE,
                     createdAt |-> t,
                     updatedAt |-> t]
        IN  [users |-> Append(us, user), campuses |-> campus.campuses,
             ret |-> Len(us) + 1, error |-> Empty]

\* enableDriverCapability without the refusal for a user who is a driver already.
enableDriverCapability_Overwrite(us, userId, input, t, day) ==
  LET i == getUserById(us, userId) IN
  IF i = 0 THEN [users |-> us, ret |-> 0, error |-> Empty]
  ELSE IF validateDriverLicenseInput(input, day) # Empty
    THEN [users |-> us, ret |-> 0, error |-> validateDriverLicenseInput(input, day)]
  ELSE [users |-> [us EXCEPT ![i].driverInfo = NewDriverInfo(input, t),
                             ![i].isDriverAvailable = TRUE,
                             ![i].updatedAt = t],
        ret |-> i, error |-> Empty]

enableDriverCapability(us, userId, input, t, day) ==
  LET i == getUserById(us, userId) IN
  IF i = 0 THEN [users |-> us, ret |-> 0, error |-> Empty]
  ELSE IF us[i].driverInfo # NoDriverInfo
    THEN [users |-> us, ret |-> 0, error |-> "User already has driver capability enabled"]
  ELSE IF validateDriverLicenseInput(input, day) # Empty
    THEN [users |-> us, ret |-> 0, error |-> validateDriverLicenseInput(input, day)]
  ELSE [users |-> [us EXCEPT ![i].driverInfo = NewDriverInfo(input, t),
                             ![i].isDriverAvailable = TRUE,
                             ![i].updatedAt = t],
        ret |-> i, error |-> Empty]

\* updateDriverLicenseDetails attaching a DriverInfo to a user who has none.
updateDriverLicenseDetails_CreatesDriverInfo(us, userId, input, t, day) ==
  LET i == getUserById(us, userId) IN
  IF i = 0 THEN [users |-> us, ret |-> 0, error |-> Empty]
  ELSE IF validateDriverLicenseInput(input, day) # Empty
    THEN [users |-> us, ret |-> 0, error |-> validateDriverLicenseInput(input, day)]
  ELSE IF us[i].driverInfo = NoDriverInfo
    THEN [users |-> [us EXCEPT ![i].driverInfo = NewDriverInfo(input, t), ![i].updatedAt = t],
          ret |-> i, error |-> Empty]
  ELSE
    LET issuingState == IF isValidIssuingState(input.issuingState) THEN input.issuingState ELSE Empty
        spread == [us[i].driverInfo EXCEPT !.legalName = Trim(input.legalName),
                                           !.issuingState = issuingState]
    IN  [users |-> [us EXCEPT ![i].driverInfo =
                                 updateLicenseDetails(spread, Trim(input.licenseNumber),
                                   normalizeExpirationDate(input.licenseExpirationDate),
                                   issuingState, t),
                               ![i].updatedAt = t],
         ret |-> i, error |-> Empty]

updateDriverLicenseDetails(us, userId, input, t, day) ==
  LET i == getUserById(us, userId) IN
  IF i = 0 THEN [users |-> us, ret |-> 0, error |-> Empty]
  ELSE IF us[i].driverInfo = NoDriverInfo THEN [users |-> us, ret |-> 0, error |-> Empty]
  ELSE IF validateDriverLicenseInput(input, day) # Empty
    THEN [users |-> us, ret |-> 0, error |-> validateDriverLicenseInput(input, day)]
  ELSE
    LET issuingState == IF isValidIssuingState(input.issuingState) THEN input.issuingState ELSE Empty
        spread == [us[i].driverInfo EXCEPT !.legalName = Trim(input.legalName),
                                           !.issuingState = issuingState]
    IN  [users |-> [us EXCEPT ![i].driverInfo =
                                 updateLicenseDetails(spread, Trim(input.licenseNumber),
                                   normalizeExpirationDate(input.licenseExpirationDate),
                                   issuingState, t),
                               ![i].updatedAt = t],
         ret |-> i, error |-> Empty]

verifyStoredLicense(us, userId, t, day, west) ==
  LET i == getUserById(us, userId) IN
  IF i = 0 THEN [users |-> us, ret |-> 0]
  ELSE IF us[i].driverInfo = NoDriverInfo THEN [users |-> us, ret |-> 0]
  ELSE IF isLicenseExpired(us[i].driverInfo.licenseExpirationDate, day, west)
    THEN [users |-> us, ret |-> 0]
  ELSE [users |-> [us EXCEPT ![i].driverInfo.lastVerifiedAt = t, ![i].updatedAt = t],
        ret |-> i]

\* updateDriverAvailability ignoring the outcome of the license verification.
updateDriverAvailability_NoExpiryCheck(us, userId, isAvailable, t, day, west) ==
  LET i == getUserById(us, userId) IN
  IF i = 0 THEN [users |-> us, ret |-> 0, error |-> Empty]
  ELSE IF isAvailable /\ us[i].driverInfo = NoDriverInfo
    THEN [users |-> us, ret |-> 0, error |-> "Driver capability not enabled"]
  ELSE
    LET verified == IF isAvailable
                      THEN verifyStoredLicense(us, userId, t, day, west)
                      ELSE [users |-> us, ret |-> i]
    IN  [users |-> [verified.users EXCEPT ![i].isDriverAvailable = isAvailable,
                                          ![i].updatedAt = t],
         ret |-> i, error |-> Empty]

\* updateDriverAvailability without the check that the user has driver capability.
updateDriverAvailability_NoCapabilityCheck(us, userId, isAvailable, t, day, west) ==
  LET i == getUserById(us, userId) IN
  IF i = 0 THEN [users |-> us, ret |-> 0, error |-> Empty]
  ELSE
    LET verified == IF isAvailable /\ us[i].driverInfo # NoDriverInfo
                      THEN verifyStoredLicense(us, userId, t, day, west)
                      ELSE [users |-> us, ret |-> i]
    IN
    IF verified.ret = 0
      THEN [users |-> verified.users, ret |-> 0, error |-> "Your driver's license has expired"]
      ELSE [users |-> [verified.users EXCEPT ![i].isDriverAvailable = isAvailable,
                                             ![i].updatedAt = t],
            ret |-> i, error |-> Empty]

updateDriverAvailability(us, userId, isAvailable, t, day, west) ==
  LET i == getUserById(us, userId) IN
  IF i = 0 THEN [users |-> us, ret |-> 0, error |-> Empty]
  ELSE IF isAvailable /\ us[i].driverInfo = NoDriverInfo
    THEN [users |-> us, ret |-> 0, error |-> "Driver capability not enabled"]
  ELSE
    LET verified == IF isAvailable
                      THEN verifyStoredLicense(us, userId, t, day, west)
                      ELSE [users |-> us, ret |-> i]
    IN
    IF verified.ret = 0
      THEN [users |-> verified.users, ret |-> 0, error |-> "Your driver's license has expired"]
      ELSE [users |-> [verified.users EXCEPT ![i].isDriverAvailable = isAvailable,
                                             ![i].updatedAt = t],
            ret |-> i, error |-> Empty]

(***************************************************************************)
(* Sessions (lib/mockUsers.ts): the map from session token to the user and *)
(* the instant the session expires.  Instants and expiresInHours are       *)
(* counted in hours.                                                       *)
(***************************************************************************)
\* new Map(): no session.
NoSessions == [k \in {} |-> 0]
\* A token generateToken never returned.
NoToken == 0
\* The null getSession returns.
NoSession == [userId |-> NoId, expiresAt |-> 0]

\* sessions.delete(token)
MapDelete(ss, token) == [k \in DOMAIN ss \ {token} |-> ss[k]]

\* createSession: store the session under the new token, then drop every session
\* whose expiresAt lies before the instant t.
createSession(ss, sessionToken, userId, expiresInHours, t) ==
  LET expiresAt == t + expiresInHours
      stored == [k \in DOMAIN ss \cup {sessionToken} |->
                   IF k = sessionToken THEN [userId |-> userId, expiresAt |-> expiresAt] ELSE ss[k]]
      expired == {k \in DOMAIN stored : stored[k].expiresAt < t}
  IN  [sessions |-> [k \in DOMAIN stored \ expired |-> stored[k]], ret |-> sessionToken]

\* getSession that never looks at expiresAt.
getSession_NoExpiry(ss, sessionToken, t) ==
  IF sessionToken \notin DOMAIN ss THEN [sessions |-> ss, ret |-> NoSession]
  ELSE [sessions |-> ss, ret |-> ss[sessionToken]]

\* getSession: null for an unknown token; an expired session is deleted and null returned.
getSession(ss, sessionToken, t) ==
  IF sessionToken \notin DOMAIN ss THEN [sessions |-> ss, ret |-> NoSession]
  ELSE IF ss[sessionToken].expiresAt < t
    THEN [sessions |-> MapDelete(ss, sessionToken), ret |-> NoSession]
  ELSE [sessions |-> ss, ret |-> ss[sessionToken]]

\* deleteSession
deleteSession(ss, sessionToken) == MapDelete(ss, sessionToken)

InitCarpools ==
  /\ now = 1
  /\ carpools = SeedCarpools(1)
  /\ last = [op |-> "seed", carpoolId |-> NoId, userId |-> Empty, ret |-> FALSE, code |-> 0,
             before |-> NoThread]

InitSessions ==
  /\ sessions = NoSessions
  /\ slast = [op |-> "load", token |-> NoToken, ret |-> NoSession, at |-> 0,
              before |-> NoSessions, wasGone |-> FALSE, issued |-> NoSessions, gone |-> {}]

InitUsers ==
  /\ users = << >>
  /\ campuses = SeedCampuses
  /\ today = 1
  /\ ulast = [op |-> "load", userId |-> NoId, ret |-> 0, error |-> Empty, code |-> 0,
              before |-> NoUser]
  /\ InitSessions

Init ==
  /\ InitCarpools
  /\ InitUsers
  /\ westOfUTC = FALSE
  /\ reqs = << >>

\* POST /api/carpools/[id]/join
Join(id, userId) ==
  /\ now < MaxNow
  /\ now' = now + 1
  /\ UNCHANGED <<userVars, reqs>>
  /\ IF userId = Empty
       THEN /\ carpools' = carpools
            /\ last' = Call("join", id, userId, FALSE, 400)
       ELSE LET r == addParticipant(carpools, id, userId, now') IN
            /\ carpools' = r.store
            /\ last' = Call("join", id, userId, r.ret # 0, IF r.ret = 0 THEN 404 ELSE 200)

\* POST /api/carpools/[id]/confirm with action "confirm" (the default)
Confirm(id, userId) ==
  /\ now < MaxNow
  /\ now' = now + 1
  /\ UNCHANGED <<userVars, reqs>>
  /\ IF userId = Empty
       THEN /\ carpools' = carpools
            /\ last' = Call("confirm", id, userId, FALSE, 400)
       ELSE LET r == confirmParticipant(carpools, id, userId, now') IN
            /\ carpools' = r.store
            /\ last' = Call("confirm", id, userId, r.ret # 0, IF r.ret = 0 THEN 404 ELSE 200)

\* POST /api/carpools/[id]/confirm with action "unconfirm"
Unconfirm(id, userId) ==
  /\ now < MaxNow
  /\ now' = now + 1
  /\ UNCHANGED <<userVars, reqs>>
  /\ IF userId = Empty
       THEN /\ carpools' = carpools
            /\ last' = Call("unconfirm", id, userId, FALSE, 400)
       ELSE LET r == unconfirmParticipant(carpools, id, userId, now') IN
            /\ carpools' = r.store
            /\ last' = Call("unconfirm", id, userId, r.ret # 0, IF r.ret = 0 THEN 404 ELSE 200)

\* POST /api/carpools/[id]/lock
Lock(id, creatorId) ==
  /\ now < MaxNow
  /\ now' = now + 1
  /\ UNCHANGED <<userVars, reqs>>
  /\ IF creatorId = Empty
       THEN /\ carpools' = carpools
            /\ last' = Call("lock", id, creatorId, FALSE, 400)
       ELSE LET r == lockCarpool(carpools, id, creatorId, now') IN
            /\ carpools' = r.store
            /\ last' = Call("lock", id, creatorId, r.ret # 0, IF r.ret = 0 THEN 404 ELSE 200)

\* cancelCarpool, called by the thread page (no route handler wraps it; code stays 0).
Cancel(id, creatorId) ==
  /\ now < MaxNow
  /\ now' = now + 1
  /\ UNCHANGED <<userVars, reqs>>
  /\ LET r == cancelCarpool(carpools, id, creatorId, now') IN
     /\ carpools' = r.store
     /\ last' = Call("cancel", id, creatorId, r.ret # 0, 0)

\* The seatsNeeded values a create request carries when the key is present.
SeatInputs == {0, 1}

\* The users who post new threads (the seeded threads belong to the other two).
CreatorInputs == {"user_3"}

\* A well-formed body of POST /api/carpools.
GoodBody(creatorId, seatsNeeded, status) ==
  [creatorId |-> creatorId, destination |-> "Boston Airport", date |-> "2026-01-02",
   timeWindow |-> [start |-> "16:30", end |-> "17:30"], pickupArea |-> " Campus Center ",
   seatsNeeded |-> seatsNeeded, notes |-> Empty, status |-> status]

\* The bodies the model sends: every body with all descriptors present, and
\* bodies with one field missing.
CreateBodies ==
  LET full == {GoodBody(u, n, st) : u \in CreatorInputs, n \in SeatInputs, st \in Statuses \cup {Empty}}
      g == GoodBody("user_3", 1, Empty)
  IN  full \cup { [g EXCEPT !.creatorId = Empty], [g EXCEPT !.destination = Empty],
                  [g EXCEPT !.date = Empty], [g EXCEPT !.timeWindow = NoWindow],
                  [g EXCEPT !.pickupArea = Empty], [g EXCEPT !.seatsNeeded = NoSeats] }

\* POST /api/carpools
Create(body) ==
  /\ now < MaxNow
  /\ Len(carpools) < MaxCarpools
  /\ now' = now + 1
  /\ UNCHANGED <<userVars, reqs>>
  /\ IF \/ body.creatorId = Empty \/ body.destination = Empty \/ body.date = Empty
        \/ body.timeWindow = NoWindow \/ body.pickupArea = Empty \/ body.seatsNeeded = NoSeats
       THEN /\ carpools' = carpools
            /\ last' = Call("create", NoId, body.creatorId, FALSE, 400)
     ELSE IF body.seatsNeeded < 1
       THEN /\ carpools' = carpools
            /\ last' = Call("create", NoId, body.creatorId, FALSE, 400)
     ELSE LET targetGroupSize == body.seatsNeeded + 1
              r == createCarpool(carpools,
                     [creatorId |-> body.creatorId, destination |-> Trim(body.destination),
                      date |-> body.date, timeWindow |-> body.timeWindow,
                      pickupArea |-> Trim(body.pickupArea), seatsNeeded |-> body.seatsNeeded,
                      targetGroupSize |-> targetGroupSize, notes |-> Trim(body.notes),
                      status |-> IF body.status # Empty THEN body.status ELSE "OPEN"],
                     now')
          IN  /\ carpools' = r.store
              /\ last' = Call("create", r.store[r.ret].id, body.creatorId, TRUE, 201)

Next ==
  \/ \E body \in CreateBodies : Create(body)
  \/ \E id \in IdInputs, u \in UserInputs : Join(id, u)
  \/ \E id \in IdInputs, u \in UserInputs : Confirm(id, u)
  \/ \E id \in IdInputs, u \in UserInputs : Unconfirm(id, u)
  \/ \E id \in IdInputs, u \in UserInputs : Lock(id, u)
  \/ \E id \in IdInputs, u \in UserInputs : Cancel(id, u)

Spec == Init /\ [][Next]_vars

(***************************************************************************)
(* The same calls with every new thread created OPEN: POST /api/carpools   *)
(* bodies that carry no status.                                            *)
(***************************************************************************)
CreateBodiesNoStatus == {body \in CreateBodies : body.status = Empty}

FlowNext ==
  \/ \E body \in CreateBodiesNoStatus : Create(body)
  \/ \E id \in IdInputs, u \in UserInputs : Join(id, u)
  \/ \E id \in IdInputs, u \in UserInputs : Confirm(id, u)
  \/ \E id \in IdInputs, u \in UserInputs : Unconfirm(id, u)
  \/ \E id \in IdInputs, u \in UserInputs : Lock(id, u)
  \/ \E id \in IdInputs, u \in UserInputs : Cancel(id, u)

SpecFlow == Init /\ [][FlowNext]_vars

(***************************************************************************)
(* The carpool API with its update route.                                  *)
(***************************************************************************)
\* An id no thread was created with.
OtherId == 9

\* The bodies PATCH /api/carpools/[id] is sent: the route passes the parsed JSON on as it is.
PatchBodies ==
  { [notes |-> "Meet at 4"], [status |-> "CONFIRMED"], [status |-> "CANCELED"],
    [creatorId |-> "user_3"], [id |-> OtherId] }

\* PATCH /api/carpools/[id]
Patch(id, body) ==
  /\ now < MaxNow
  /\ now' = now + 1
  /\ UNCHANGED <<userVars, reqs>>
  /\ LET r == updateCarpool(carpools, id, body, now') IN
     /\ carpools' = r.store
     /\ last' = Call("patch", id, Empty, r.ret # 0, IF r.ret = 0 THEN 404 ELSE 200)

PatchNext ==
  \/ FlowNext
  \/ \E id \in IdInputs, body \in PatchBodies : Patch(id, body)

SpecPatch == Init /\ [][PatchNext]_vars

(***************************************************************************)
(* Listing: GET /api/carpools over stores of every order of dates and      *)
(* start times.                                                            *)
(***************************************************************************)
DateInputs == {"2026-01-02", "2026-01-03"}

StartInputs == {"08:00", "16:30", "9:00"}

\* A stored thread with the given id, date and start.
ThreadAt(id, date, start) ==
  [SeedCarpools(1)[1] EXCEPT !.id = id, !.date = date, !.timeWindow.start = start]

\* The stores of up to MaxCarpools threads.
ListStores ==
  UNION { { [i \in 1..n |-> ThreadAt(i, d[i], s[i])] :
            d \in [1..n -> DateInputs], s \in [1..n -> StartInputs] } : n \in 0..MaxCarpools }

\* The query strings of the model: status, destination and date, each present or not.
FilterInputs ==
  [status : {{}, {"OPEN"}}, destination : {Empty, "boston"}, date : {Empty, "2026-01-03"}]

SortInit ==
  /\ InitUsers
  /\ westOfUTC = FALSE
  /\ reqs = << >>
  /\ now = 1
  /\ carpools \in ListStores
  /\ last = [op |-> "seed", carpoolId |-> NoId, userId |-> Empty, ret |-> << >>, code |-> 0,
             before |-> << >>, given |-> << >>]

\* GET /api/carpools: the handler reads no clock and writes nothing to the store.
List(filters) ==
  /\ UNCHANGED <<now, userVars, reqs>>
  /\ LET all == getAllCarpools(carpools)
         given == IF filters.status # {} \/ filters.destination # Empty \/ filters.date # Empty
                    THEN filterCarpools(all, filters) ELSE all
         r == sortCarpoolsBySoonest(given)
     IN  /\ carpools' = carpools
         /\ last' = [op |-> "list", carpoolId |-> NoId, userId |-> Empty, ret |-> r.ret,
                     code |-> 200, before |-> r.input, given |-> given]

SortNext == \E filters \in FilterInputs : List(filters)

SpecSort == SortInit /\ [][SortNext]_vars

(***************************************************************************)
(* The user store under its callers: the driver routes after               *)
(* authentication, the store functions they call, the alert job and the    *)
(* passing of days.                                                        *)
(***************************************************************************)
UserOf(us, id) == IF getUserById(us, id) = 0 THEN NoUser ELSE us[getUserById(us, id)]

\* The record of a call on the user store.
UserCall(op, userId, ret, error, code) ==
  [op |-> op, userId |-> userId, ret |-> ret, error |-> error, code |-> code,
   before |-> UserOf(users, userId)]

UserIdInputs == {NoId} \cup {users[i].id : i \in 1..Len(users)}

EmailInputs == { [local |-> "ann", domain |-> "example.edu"],
                 [local |-> "Ann", domain |-> "Example.EDU"],
                 [local |-> "cat", domain |-> "gmail.com"] }

NoLicense == [legalName |-> Empty, licenseNumber |-> Empty,
              licenseExpirationDate |-> Undefined, issuingState |-> Empty]

GoodLicense(licenseNumber, licenseExpirationDate) ==
  [legalName |-> "Ann Lee", licenseNumber |-> licenseNumber,
   licenseExpirationDate |-> licenseExpirationDate, issuingState |-> "MA"]

\* License details a client sends on day: expiring the next day or three days
\* later, and one with an unrecognized state.
LicenseInputs(day) ==
  { GoodLicense(" D1 ", day + 1), GoodLicense("D2", day + 3),
    [GoodLicense("D2", day + 3) EXCEPT !.issuingState = "ZZ"] }

\* The user store in a process whose time zone lies east or west of UTC.
DriverInit ==
  /\ InitCarpools
  /\ InitUsers
  /\ westOfUTC \in BOOLEAN
  /\ reqs = << >>

\* createUser
CreateUser(email, license) ==
  /\ now < MaxNow
  /\ now' = now + 1
  /\ LET data == [email |-> email, legalName |-> license.legalName,
                  licenseNumber |-> license.licenseNumber,
                  licenseExpirationDate |-> license.licenseExpirationDate,
                  issuingState |-> license.issuingState]
         r == createUser(users, campuses, data, now', today)
     IN  /\ users' = r.users
         /\ campuses' = r.campuses
         /\ ulast' = UserCall("createUser", IF r.ret = 0 THEN NoId ELSE r.users[r.ret].id,
                              r.ret, r.error, 0)
  /\ UNCHANGED <<today, westOfUTC, carpoolVars, sessionVars>>

\* enableDriverCapability
EnableDriver(userId, license) ==
  /\ now < MaxNow
  /\ now' = now + 1
  /\ LET r == enableDriverCapability(users, userId, license, now', today) IN
     /\ users' = r.users
     /\ ulast' = UserCall("enable", userId, r.ret, r.error, 0)
  /\ UNCHANGED <<campuses, today, westOfUTC, carpoolVars, sessionVars>>

\* updateDriverLicenseDetails
UpdateLicense(userId, license) ==
  /\ now < MaxNow
  /\ now' = now + 1
  /\ LET r == updateDriverLicenseDetails(users, userId, license, now', today) IN
     /\ users' = r.users
     /\ ulast' = UserCall("update", userId, r.ret, r.error, 0)
  /\ UNCHANGED <<campuses, today, westOfUTC, carpoolVars, sessionVars>>

\* verifyStoredLicense
VerifyStored(userId) ==
  /\ now < MaxNow
  /\ now' = now + 1
  /\ LET r == verifyStoredLicense(users, userId, now', today, westOfUTC) IN
     /\ users' = r.users
     /\ ulast' = UserCall("verifyStored", userId, r.ret, Empty, 0)
  /\ UNCHANGED <<campuses, today, westOfUTC, carpoolVars, sessionVars>>

\* POST /api/auth/driver/toggle for the session of userId, from the body on.
Toggle(userId, isAvailable, verifyLicense) ==
  /\ now < MaxNow
  /\ now' = now + 1
  /\ LET pre == IF isAvailable /\ verifyLicense /\ UserOf(users, userId) # NoUser
                   /\ UserOf(users, userId).driverInfo # NoDriverInfo
                  THEN verifyStoredLicense(users, userId, now', today, westOfUTC).users
                  ELSE users
         r == updateDriverAvailability(pre, userId, isAvailable, now', today, westOfUTC)
     IN  /\ users' = r.users
         /\ ulast' = UserCall(IF isAvailable THEN "toggleOn" ELSE "toggleOff", userId, r.ret, r.error,
                              IF r.error # Empty THEN 500 ELSE IF r.ret = 0 THEN 404 ELSE 200)
  /\ UNCHANGED <<campuses, today, westOfUTC, carpoolVars, sessionVars>>

\* The alert job stores the copy markExpirationAlertSent returns for a driver.
MarkAlertSent(userId, alertType) ==
  /\ now < MaxNow
  /\ UserOf(users, userId) # NoUser
  /\ UserOf(users, userId).driverInfo # NoDriverInfo
  /\ now' = now + 1
  /\ users' = [users EXCEPT ![getUserById(users, userId)].driverInfo =
                 markExpirationAlertSent(@, alertType, now')]
  /\ ulast' = UserCall("markSent", userId, getUserById(users, userId), Empty, 0)
  /\ UNCHANGED <<campuses, today, westOfUTC, carpoolVars, sessionVars>>

\* Midnight passes.
NextDay ==
  /\ today < MaxDay
  /\ today' = today + 1
  /\ UNCHANGED <<now, users, campuses, westOfUTC, ulast, carpoolVars, sessionVars>>

DriverNext ==
  \/ \E e \in EmailInputs, l \in LicenseInputs(today) \cup {NoLicense} : CreateUser(e, l)
  \/ \E u \in UserIdInputs, l \in LicenseInputs(today) : EnableDriver(u, l)
  \/ \E u \in UserIdInputs, l \in LicenseInputs(today) : UpdateLicense(u, l)
  \/ \E u \in UserIdInputs : VerifyStored(u)
  \/ \E u \in UserIdInputs, a \in BOOLEAN, v \in BOOLEAN : Toggle(u, a, v)
  \/ \E u \in UserIdInputs, a \in AlertTypes : MarkAlertSent(u, a)
  \/ NextDay

SpecDriver == DriverInit /\ [][DriverNext]_vars

(***************************************************************************)
(* Two requests in flight on the carpool store.  A route handler is an     *)
(* async function: it runs until await params, later resumes and runs      *)
(* until await request.json(), later resumes and runs validation, the      *)
(* store call and the response without another await.  The event loop      *)
(* resumes the suspended handlers in any order.                            *)
(***************************************************************************)
(***************************************************************************)
(* Sign-up from a campus the store has not seen, and the driver calls.     *)
(***************************************************************************)
\* The addresses of EmailInputs and one of a domain no campus has yet.
SignupEmails == EmailInputs \cup { [local |-> "bob", domain |-> "Other.EDU"] }

SignupNext ==
  \/ \E e \in SignupEmails, l \in LicenseInputs(today) \cup {NoLicense} : CreateUser(e, l)
  \/ \E u \in UserIdInputs, l \in LicenseInputs(today) : EnableDriver(u, l)
  \/ \E u \in UserIdInputs, l \in LicenseInputs(today) : UpdateLicense(u, l)
  \/ \E u \in UserIdInputs, a \in BOOLEAN, v \in BOOLEAN : Toggle(u, a, v)

SpecSignup == DriverInit /\ [][SignupNext]_vars

(***************************************************************************)
(* The routes and the status codes they answer with: driver enable and     *)
(* toggle after authentication, carpool lock and confirm.                  *)
(***************************************************************************)
\* The bodies POST /api/auth/driver/enable is sent on day: a full one, one with a blank
\* legalName and one without licenseUploadUrl.
EnableBodies(day) ==
  LET full == [legalName |-> "Ann Lee", licenseUploadUrl |-> "D2", expirationDate |-> day + 3]
  IN  { full, [full EXCEPT !.legalName = " "], [full EXCEPT !.licenseUploadUrl = Empty] }

\* POST /api/auth/driver/enable for the session of userId, from the body on.  The
\* route passes four arguments: licenseUploadUrl where the store function takes
\* licenseNumber, and nothing for issuingState.
EnableRoute(userId, body) ==
  /\ now < MaxNow
  /\ now' = now + 1
  /\ UNCHANGED <<campuses, today, westOfUTC, carpoolVars, sessionVars>>
  /\ IF body.legalName = Empty \/ Trim(body.legalName) = Empty
       THEN /\ users' = users
            /\ ulast' = UserCall("enableRoute", userId, 0, "Legal name is required", 400)
     ELSE IF body.licenseUploadUrl = Empty
       THEN /\ users' = users
            /\ ulast' = UserCall("enableRoute", userId, 0, "License upload is required", 400)
     ELSE LET r == enableDriverCapability(users, userId,
                     [legalName |-> body.legalName, licenseNumber |-> body.licenseUploadUrl,
                      licenseExpirationDate |-> body.expirationDate, issuingState |-> Empty],
                     now', today)
          IN  /\ users' = r.users
              /\ ulast' = UserCall("enableRoute", userId, r.ret, r.error,
                                   IF r.error # Empty THEN 500 ELSE IF r.ret = 0 THEN 404 ELSE 200)

RoutesNext ==
  \/ \E e \in EmailInputs, l \in LicenseInputs(today) \cup {NoLicense} : CreateUser(e, l)
  \/ \E u \in UserIdInputs, b \in EnableBodies(today) : EnableRoute(u, b)
  \/ \E u \in UserIdInputs, a \in BOOLEAN, v \in BOOLEAN : Toggle(u, a, v)
  \/ \E id \in IdInputs, u \in UserInputs : Lock(id, u)
  \/ \E id \in IdInputs, u \in UserInputs : Confirm(id, u)
  \/ NextDay

SpecRoutes == DriverInit /\ [][RoutesNext]_vars

(***************************************************************************)
(* Sessions under sign-in, authenticated requests, sign-out and the        *)
(* passing of hours.  slast records the last call: its token, what it      *)
(* returned, the instant it ran at, the map before it, every session ever  *)
(* issued, and the issued tokens that were deleted or answered with null.  *)
(***************************************************************************)
\* generateToken: 32 random bytes, a token no earlier call returned.
generateToken(issued) == Cardinality(DOMAIN issued) + 1

SessionUserInputs == {1, 2}

HourInputs == {1, 2}

\* The tokens a request may carry: every token ever issued and one never issued.
TokenInputs == DOMAIN slast.issued \cup {NoToken}

CreateSession(userId, expiresInHours) ==
  /\ Cardinality(DOMAIN slast.issued) < MaxSessions
  /\ LET sessionToken == generateToken(slast.issued)
         r == createSession(sessions, sessionToken, userId, expiresInHours, now)
     IN  /\ sessions' = r.sessions
         /\ slast' = [op |-> "createSession", token |-> r.ret, ret |-> NoSession, at |-> now,
                      before |-> sessions, wasGone |-> FALSE,
                      issued |-> [k \in DOMAIN slast.issued \cup {sessionToken} |->
                                    IF k = sessionToken
                                      THEN [userId |-> userId, expiresAt |-> now + expiresInHours]
                                      ELSE slast.issued[k]],
                      gone |-> slast.gone]
  /\ UNCHANGED <<now, users, campuses, today, westOfUTC, ulast, carpoolVars>>

GetSession(sessionToken) ==
  /\ LET r == getSession(sessions, sessionToken, now) IN
     /\ sessions' = r.sessions
     /\ slast' = [op |-> "getSession", token |-> sessionToken, ret |-> r.ret, at |-> now,
                  before |-> sessions, wasGone |-> sessionToken \in slast.gone,
                  issued |-> slast.issued,
                  gone |-> IF r.ret = NoSession /\ sessionToken \in DOMAIN slast.issued
                             THEN slast.gone \cup {sessionToken} ELSE slast.gone]
  /\ UNCHANGED <<now, users, campuses, today, westOfUTC, ulast, carpoolVars>>

DeleteSession(sessionToken) ==
  /\ sessions' = deleteSession(sessions, sessionToken)
  /\ slast' = [op |-> "deleteSession", token |-> sessionToken, ret |-> NoSession, at |-> now,
               before |-> sessions, wasGone |-> sessionToken \in slast.gone,
               issued |-> slast.issued,
               gone |-> slast.gone \cup ({sessionToken} \cap DOMAIN slast.issued)]
  /\ UNCHANGED <<now, users, campuses, today, westOfUTC, ulast, carpoolVars>>

\* An hour passes.
PassHour ==
  /\ now < MaxNow
  /\ now' = now + 1
  /\ UNCHANGED <<userVars, carpoolVars>>

SessionNext ==
  \/ \E u \in SessionUserInputs, h \in HourInputs : CreateSession(u, h)
  \/ \E k \in TokenInputs : GetSession(k)
  \/ \E k \in TokenInputs : DeleteSession(k)
  \/ PassHour

SpecSession == Init /\ [][SessionNext]_vars

Requests == 1..2

RequestInputs ==
  [op : {"join", "confirm"}, carpoolId : {1, 2}, userId : UserInputs,
   pc : {"params"}, code : {0}, changed : {FALSE}]

ConcInit ==
  /\ InitCarpools
  /\ InitUsers
  /\ westOfUTC = FALSE
  /\ reqs \in [Requests -> RequestInputs]

\* const { id } = await params: the handler resumes and suspends at the body.
ResumeParams(i) ==
  /\ reqs[i].pc = "params"
  /\ reqs' = [reqs EXCEPT ![i].pc = "body"]
  /\ UNCHANGED <<carpools, now, last, userVars>>

\* The store the handler's store call works on, as a copy taken when the
\* request arrived.
HandlerStore_Snapshot(i) == SeedCarpools(1)

\* The store the handler's store call works on: the module's array as it is
\* at the call.
HandlerStore(i) == carpools

\* const body = await request.json(): the handler resumes, validates, calls
\* the store and responds.
ResumeBody(i) ==
  /\ reqs[i].pc = "body"
  /\ now < MaxNow
  /\ now' = now + 1
  /\ IF reqs[i].userId = Empty
       THEN /\ carpools' = carpools
            /\ reqs' = [reqs EXCEPT ![i].pc = "done", ![i].code = 400]
       ELSE LET r == IF reqs[i].op = "join"
                       THEN addParticipant(HandlerStore(i), reqs[i].carpoolId, reqs[i].userId, now')
                       ELSE confirmParticipant(HandlerStore(i), reqs[i].carpoolId, reqs[i].userId, now')
            IN  /\ carpools' = r.store
                /\ reqs' = [reqs EXCEPT ![i].pc = "done",
                                        ![i].code = IF r.ret = 0 THEN 404 ELSE 200,
                                        ![i].changed = (r.store # carpools)]
  /\ UNCHANGED <<last, userVars>>

ConcNext ==
  \/ \E i \in Requests : ResumeParams(i)
  \/ \E i \in Requests : ResumeBody(i)

SpecConc == ConcInit /\ [][ConcNext]_vars

(***************************************************************************)
(* getLicenseExpirationStatus as a function of its argument: the store     *)
(* holds one driver with any expiration date (or none) and any alerts      *)
(* marked sent, on any day, and the caller queries the status.             *)
(***************************************************************************)
StatusDates == 1..(MaxDay + 9)

AlertMaps == [AlertTypes -> {Undefined, 1}]

StatusInit ==
  /\ InitCarpools
  /\ campuses = SeedCampuses
  /\ today \in 1..MaxDay
  /\ westOfUTC \in BOOLEAN
  /\ reqs = << >>
  /\ ulast = [op |-> "load", userId |-> NoId, ret |-> 0, error |-> Empty, code |-> 0,
              before |-> NoUser]
  /\ InitSessions
  /\ \E date \in StatusDates \cup {Undefined}, sent \in AlertMaps :
       users = << [id |-> 1,
                   email |-> [local |-> "ann", domain |-> "example.edu"],
                   campusId |-> 1,
                   isDriverAvailable |-> TRUE,
                   driverInfo |-> [NewDriverInfo(GoodLicense("D2", date), 1)
                                     EXCEPT !.expirationAlertsSent =
                                       [oneWeek |-> sent["oneWeek"],
                                        threeDays |-> sent["threeDays"],
                                        oneDay |-> sent["oneDay"]]],
                   emailVerified |-> FALSE,
                   createdAt |-> 1,
                   updatedAt |-> 1] >>

\* A caller reads the expiration status of the driverInfo of userId; ret holds
\* the status returned.
ExpirationStatus(userId) ==
  /\ now < MaxNow
  /\ now' = now + 1
  /\ ulast' = UserCall("status", userId,
                       getLicenseExpirationStatus(
                         IF UserOf(users, userId) = NoUser THEN NoDriverInfo
                         ELSE UserOf(users, userId).driverInfo, today, westOfUTC),
                       Empty, 0)
  /\ UNCHANGED <<users, campuses, today, westOfUTC, carpoolVars, sessionVars>>

StatusNext == \E u \in UserIdInputs : ExpirationStatus(u)

SpecStatus == StatusInit /\ [][StatusNext]_vars


(***************************************************************************)
(* Properties.                                                             *)
(***************************************************************************)
Threads == 1..Len(carpools)

\* The thread the last call named, as stored now.
Target == ThreadOf(carpools, last.carpoolId)

\* The last call named a stored thread.
HadTarget == last.before.id # NoId

\* The participant list reduced to who is in it and who has confirmed.
Membership(c) == [k \in 1..Len(c.participants) |->
                    [userId |-> c.participants[k].userId,
                     confirmed |-> c.participants[k].confirmedAt # Undefined]]

\* The membership facts of a thread: participants, their confirmation, both counters.
MembershipFacts(c) == <<Membership(c), c.interestedCount, c.confirmedCount>>

IsParticipant(c, userId) == \E k \in 1..Len(c.participants) : c.participants[k].userId = userId

HasConfirmed(c, userId) ==
  \E k \in 1..Len(c.participants) :
    c.participants[k].userId = userId /\ c.participants[k].confirmedAt # Undefined

\* C1: every stored thread has its creator among its participants, and that
\* participant has confirmedAt set.
C1_CreatorAlwaysConfirmed ==
  \A i \in Threads : HasConfirmed(carpools[i], carpools[i].creatorId)

\* C2: once a lock has succeeded (status CONFIRMED, lockedAt set), no join,
\* confirm or unconfirm call takes the status away from CONFIRMED.
C2_LockedStaysConfirmed ==
  [][\A i \in Threads :
       (/\ carpools[i].status = "CONFIRMED"
        /\ carpools[i].lockedAt # Undefined
        /\ last'.op \in {"join", "confirm", "unconfirm"})
       => carpools'[i].status = "CONFIRMED"]_vars

\* C3: while a thread is CONFIRMED after a lock, no join, confirm or unconfirm call changes
\* its participant list, any participant's confirmation, or either counter.
C3_LockedMembershipFrozen ==
  [][\A i \in Threads :
       (/\ carpools[i].status = "CONFIRMED"
        /\ carpools[i].lockedAt # Undefined
        /\ last'.op \in {"join", "confirm", "unconfirm"})
       => MembershipFacts(carpools'[i]) = MembershipFacts(carpools[i])]_vars

\* C4: a thread whose status is CANCELED keeps the status CANCELED under every
\* later call.
C4_CanceledIsTerminal ==
  [][\A i \in Threads :
       carpools[i].status = "CANCELED" => carpools'[i].status = "CANCELED"]_vars

\* C5: in every stored thread interestedCount is the number of participants and
\* confirmedCount is the number of participants whose confirmedAt is set.
C5_CountersMatchParticipants ==
  \A i \in Threads :
    /\ carpools[i].interestedCount = Len(carpools[i].participants)
    /\ carpools[i].confirmedCount = CountConfirmed(carpools[i].participants)

\* A thread with three participants, not all confirmed, right after a confirm or unconfirm
\* changed its confirmed count.
C5_Witness ==
  /\ last.op \in {"confirm", "unconfirm"}
  /\ HadTarget
  /\ Target.confirmedCount # last.before.confirmedCount
  /\ Target.interestedCount = 3
  /\ Target.confirmedCount \in {1, 2}

\* C6: a lock call succeeds exactly when the thread exists, the caller is its
\* creator and its status is OPEN or PENDING_CONFIRMATIONS; a successful lock
\* leaves the status CONFIRMED and lockedAt set.
C6_LockSucceedsIff ==
  last.op = "lock" =>
    /\ (last.code = 200) <=>
         (/\ HadTarget
          /\ last.before.creatorId = last.userId
          /\ last.before.status \in {"OPEN", "PENDING_CONFIRMATIONS"})
    /\ last.ret <=> (last.code = 200)
    /\ (last.code = 200) => (Target.status = "CONFIRMED" /\ Target.lockedAt # Undefined)

\* A lock that succeeded while fewer participants had confirmed than the target group size.
C6_Witness ==
  /\ last.op = "lock"
  /\ last.code = 200
  /\ Target.status = "CONFIRMED"
  /\ Target.confirmedCount < Target.targetGroupSize

\* C7: a cancel call by the thread's creator succeeds from every status and
\* leaves the status CANCELED and canceledAt set, with participants and both
\* counters as they were.
C7_CancelByCreatorAlwaysSucceeds ==
  (last.op = "cancel" /\ HadTarget /\ last.before.creatorId = last.userId) =>
    /\ last.ret
    /\ Target.status = "CANCELED"
    /\ Target.canceledAt # Undefined
    /\ Target.participants = last.before.participants
    /\ Target.interestedCount = last.before.interestedCount
    /\ Target.confirmedCount = last.before.confirmedCount

\* A cancel by the creator of a thread that was COMPLETED and had a second participant.
C7_Witness ==
  /\ last.op = "cancel"
  /\ last.ret
  /\ HadTarget
  /\ last.before.status = "COMPLETED"
  /\ Len(Target.participants) = 2

\* A call that failed: a 400 or 404 response, or a null from cancelCarpool.
Failed(l) == l.code \in {400, 404} \/ (l.op = "cancel" /\ ~l.ret)

\* C8: a call that fails leaves the store exactly as it was: no thread changes
\* in any field and no thread is added.
C8_FailedCallsChangeNothing ==
  [][Failed(last') => carpools' = carpools]_vars

\* A lock by the creator refused because of the thread's status.
C8_Witness ==
  /\ last.op = "lock"
  /\ last.code = 404
  /\ HadTarget
  /\ last.before.creatorId = last.userId
  /\ last.before.status \notin {"OPEN", "PENDING_CONFIRMATIONS"}
  /\ Target = last.before

\* No thread holds two participants with the same userId.
NoDuplicateParticipants ==
  \A i \in Threads : \A j, k \in 1..Len(carpools[i].participants) :
    carpools[i].participants[j].userId = carpools[i].participants[k].userId => j = k

\* C9: a join repeated with the same thread id and userId leaves every
\* thread's participant list, counters and status as the first join left
\* them, and no thread ever holds the same userId twice.
C9_JoinIdempotent ==
  /\ []NoDuplicateParticipants
  /\ [][(/\ last.op = "join"
         /\ last'.op = "join"
         /\ last'.carpoolId = last.carpoolId
         /\ last'.userId = last.userId)
        => /\ Len(carpools') = Len(carpools)
           /\ \A i \in Threads :
                /\ carpools'[i].participants = carpools[i].participants
                /\ carpools'[i].interestedCount = carpools[i].interestedCount
                /\ carpools'[i].confirmedCount = carpools[i].confirmedCount
                /\ carpools'[i].status = carpools[i].status]_vars

\* A join answered 200 for a user who had already joined the thread as a non-creator.
C9_Witness ==
  /\ last.op = "join"
  /\ last.code = 200
  /\ HadTarget
  /\ last.userId # last.before.creatorId
  /\ IsParticipant(last.before, last.userId)
  /\ Len(Target.participants) = Len(last.before.participants)

\* C10: an unconfirm call on a thread whose status is CONFIRMED changes
\* neither its status, nor any participant's confirmation, nor a counter.
C10_UnconfirmOnLockedIsNoOp ==
  (last.op = "unconfirm" /\ HadTarget /\ last.before.status = "CONFIRMED") =>
    /\ Target.status = "CONFIRMED"
    /\ MembershipFacts(Target) = MembershipFacts(last.before)

\* An unconfirm by a confirmed participant of a locked thread that has a second participant.
C10_Witness ==
  /\ last.op = "unconfirm"
  /\ last.code = 200
  /\ HadTarget
  /\ last.before.status = "CONFIRMED"
  /\ last.before.lockedAt # Undefined
  /\ Len(last.before.participants) = 2
  /\ HasConfirmed(last.before, last.userId)

\* The confirmedAt of userId in thread c (Undefined if userId is no participant).
ConfirmedAtOf(c, userId) ==
  IF findParticipant(c.participants, userId) = 0 THEN Undefined
  ELSE c.participants[findParticipant(c.participants, userId)].confirmedAt

\* C11: on a thread that is not CONFIRMED, a confirm of a participant who had
\* not confirmed, followed at once by an unconfirm for the same userId, leaves
\* confirmedCount and that participant's confirmedAt as they were before the
\* confirm.
C11_ConfirmThenUnconfirmRestores ==
  [][(/\ last.op = "confirm"
      /\ last.code = 200
      /\ last.before.status # "CONFIRMED"
      /\ ConfirmedAtOf(last.before, last.userId) = Undefined
      /\ last'.op = "unconfirm"
      /\ last'.carpoolId = last.carpoolId
      /\ last'.userId = last.userId)
     => /\ ThreadOf(carpools', last.carpoolId).confirmedCount = last.before.confirmedCount
        /\ ConfirmedAtOf(ThreadOf(carpools', last.carpoolId), last.userId)
             = ConfirmedAtOf(last.before, last.userId)]_vars

\* An unconfirm that cleared a confirmation given by the call just before it.
C11_Witness ==
  /\ last.op = "unconfirm"
  /\ last.code = 200
  /\ HadTarget
  /\ last.userId # last.before.creatorId
  /\ ConfirmedAtOf(last.before, last.userId) = now - 1
  /\ ConfirmedAtOf(Target, last.userId) = Undefined
  /\ Target.confirmedCount = last.before.confirmedCount - 1

\* A body create accepts: every descriptor present and seatsNeeded at least 1.
ValidBody(body) ==
  /\ body.creatorId # Empty /\ body.destination # Empty /\ body.date # Empty
  /\ body.timeWindow # NoWindow /\ body.pickupArea # Empty
  /\ body.seatsNeeded # NoSeats /\ body.seatsNeeded >= 1

\* C12: a create with valid input appends one thread with targetGroupSize =
\* seatsNeeded + 1, the creator as its only participant (isCreator, confirmedAt
\* set), both counters 1, and status OPEN or, if the body carries a status,
\* that status.
C12_CreateStoresThread ==
  [][last'.op = "create" =>
     \A body \in CreateBodies :
       (ValidBody(body) /\ Create(body)) =>
         /\ last'.code = 201
         /\ Len(carpools') = Len(carpools) + 1
         /\ SubSeq(carpools', 1, Len(carpools)) = carpools
         /\ LET c == carpools'[Len(carpools')] IN
            /\ c.creatorId = body.creatorId
            /\ c.seatsNeeded = body.seatsNeeded
            /\ c.targetGroupSize = body.seatsNeeded + 1
            /\ Len(c.participants) = 1
            /\ c.participants[1].userId = body.creatorId
            /\ c.participants[1].isCreator
            /\ c.participants[1].confirmedAt # Undefined
            /\ c.interestedCount = 1
            /\ c.confirmedCount = 1
            /\ c.status = (IF body.status = Empty THEN "OPEN" ELSE body.status)]_vars

\* A create that stored a thread with an overridden status.
C12_Witness ==
  /\ last.op = "create"
  /\ last.code = 201
  /\ Target.status = "DRAFT"
  /\ Target.targetGroupSize = 2
  /\ Len(Target.participants) = 1

\* A step that is the call op on the user store; days pass between calls only.
UserCallStep(op) == now' # now /\ ulast'.op = op

\* The user the last call on the user store was about, as stored now.
UserTarget == UserOf(users, ulast.userId)

HasDriverInfo(user) == user # NoUser /\ user.driverInfo # NoDriverInfo

\* C13: turning availability OFF succeeds for every existing user; turning it
\* ON succeeds only for a user who has a DriverInfo whose stored expiration
\* date is not before today; a refused ON throws an error and leaves the
\* user's isDriverAvailable and lastVerifiedAt as they were.
C13_AvailabilityToggle ==
  [][/\ (UserCallStep("toggleOff") /\ ulast'.before # NoUser)
          => /\ ulast'.ret # 0 /\ ulast'.error = Empty
             /\ ~UserOf(users', ulast'.userId).isDriverAvailable
     /\ (UserCallStep("toggleOn") /\ ulast'.ret # 0)
          => /\ HasDriverInfo(ulast'.before)
             /\ \/ ulast'.before.driverInfo.licenseExpirationDate = Undefined
                \/ ulast'.before.driverInfo.licenseExpirationDate >= today
             /\ UserOf(users', ulast'.userId).isDriverAvailable
     /\ (UserCallStep("toggleOn") /\ ulast'.before # NoUser /\ ulast'.ret = 0)
          => /\ ulast'.error # Empty
             /\ UserOf(users', ulast'.userId).isDriverAvailable = ulast'.before.isDriverAvailable
             /\ UserOf(users', ulast'.userId).driverInfo = ulast'.before.driverInfo]_vars

\* An available driver whose license expired was refused the toggle ON and is
\* still flagged available, with the verification stamp of before.
C13_Witness ==
  /\ ulast.op = "toggleOn"
  /\ ulast.ret = 0
  /\ ulast.error = "Your driver's license has expired"
  /\ ulast.before.isDriverAvailable
  /\ UserTarget.isDriverAvailable
  /\ UserTarget.driverInfo.lastVerifiedAt = ulast.before.driverInfo.lastVerifiedAt

\* C14: a toggle ON is refused whenever today is the stored expiration date or
\* a later day.
C14_RefusedFromExpirationDay ==
  [][(/\ UserCallStep("toggleOn")
      /\ HasDriverInfo(ulast'.before)
      /\ ulast'.before.driverInfo.licenseExpirationDate # Undefined
      /\ today >= ulast'.before.driverInfo.licenseExpirationDate)
     => ulast'.ret = 0]_vars

\* C15: enable on a user who has a DriverInfo throws the conflict error and
\* leaves the user as stored; an enable that succeeds attaches a DriverInfo
\* with verified = TRUE, verifiedAt = lastVerifiedAt and no alert sent, and
\* sets isDriverAvailable; so enable never rewrites a verifiedAt.
C15_EnableOnce ==
  [][UserCallStep("enable") =>
       /\ HasDriverInfo(ulast'.before)
            => /\ ulast'.ret = 0
               /\ ulast'.error = "User already has driver capability enabled"
               /\ users' = users
       /\ ulast'.ret # 0
            => LET user == UserOf(users', ulast'.userId) IN
               /\ ~HasDriverInfo(ulast'.before)
               /\ user.driverInfo.verified
               /\ user.driverInfo.verifiedAt = user.driverInfo.lastVerifiedAt
               /\ user.driverInfo.verifiedAt = now'
               /\ user.driverInfo.expirationAlertsSent = NoAlerts
               /\ user.isDriverAvailable]_vars

\* An enable refused for a driver whose first verification is older than the
\* last one.
C15_Witness ==
  /\ ulast.op = "enable"
  /\ ulast.error = "User already has driver capability enabled"
  /\ HasDriverInfo(UserTarget)
  /\ UserTarget.driverInfo.verifiedAt < UserTarget.driverInfo.lastVerifiedAt
  /\ UserTarget = ulast.before

C17_VerifyStoredByCalendarDay ==
  [][(UserCallStep("verifyStored") /\ HasDriverInfo(ulast'.before)) =>
       LET old == ulast'.before.driverInfo
           new == UserOf(users', ulast'.userId).driverInfo IN
       IF old.licenseExpirationDate # Undefined /\ old.licenseExpirationDate < today
         THEN ulast'.ret = 0 /\ new = old
         ELSE ulast'.ret # 0 /\ new = [old EXCEPT !.lastVerifiedAt = now']]_vars

\* The alert types getLicenseExpirationStatus reports as needed for driverInfo.
AlertsNeeded(driverInfo) ==
  {a \in AlertTypes : getLicenseExpirationStatus(driverInfo, today, westOfUTC).alertsNeeded[a]}

\* The alert types marked sent in driverInfo.
AlertsSent(driverInfo) ==
  IF driverInfo = NoDriverInfo THEN {}
  ELSE {a \in AlertTypes : driverInfo.expirationAlertsSent[a] # Undefined}

\* C19: on no day is an alert type that is marked sent reported as needed; a
\* mark is removed only by an update of the license details of that user; and
\* marking one type leaves the sent-state of the other two as it was.
C19_AlertDueOnce ==
  /\ [](\A i \in 1..Len(users) :
          AlertsSent(users[i].driverInfo) \cap AlertsNeeded(users[i].driverInfo) = {})
  /\ [][/\ \A i \in 1..Len(users) :
             ~(AlertsSent(users[i].driverInfo) \subseteq AlertsSent(users'[i].driverInfo))
               => UserCallStep("update") /\ ulast'.userId = users[i].id
        /\ UserCallStep("markSent") =>
           \A u \in UserIdInputs, a \in AlertTypes :
             MarkAlertSent(u, a) =>
               /\ AlertsSent(UserOf(users', u).driverInfo)
                    = AlertsSent(UserOf(users, u).driverInfo) \cup {a}
               /\ \A b \in AlertTypes \ {a} :
                    UserOf(users', u).driverInfo.expirationAlertsSent[b]
                      = UserOf(users, u).driverInfo.expirationAlertsSent[b]]_vars

\* On a day after the first, the threeDays alert of a driver two days from
\* expiration has just been marked sent, and no alert is reported as needed.
C19_Witness ==
  /\ ulast.op = "markSent"
  /\ ulast.before.driverInfo.expirationAlertsSent = NoAlerts
  /\ AlertsSent(UserTarget.driverInfo) = {"threeDays"}
  /\ DaysUntil(UserTarget.driverInfo.licenseExpirationDate, today, westOfUTC) = 2
  /\ today > 1
  /\ AlertsNeeded(UserTarget.driverInfo) = {}

\* C18: for a driverInfo that is d days from its expiration date,
\* getLicenseExpirationStatus returns isExpired = (d < 0), daysUntilExpiration
\* = null if d < 0 and d otherwise, oneWeek needed iff 3 < d <= 7 and not
\* sent, threeDays needed iff 1 < d <= 3 and not sent, oneDay needed iff d = 1
\* and not sent; so at most one alert is needed, none when d = 0, d < 0 or
\* d > 7; and the query leaves the store as it was.
C18_ExpirationStatus ==
  [][(/\ UserCallStep("status")
      /\ HasDriverInfo(ulast'.before)
      /\ ulast'.before.driverInfo.licenseExpirationDate # Undefined) =>
       LET d == DaysUntil(ulast'.before.driverInfo.licenseExpirationDate, today, westOfUTC)
           sent == ulast'.before.driverInfo.expirationAlertsSent
           r == ulast'.ret
       IN  /\ r.isExpired = (d < 0)
           /\ r.daysUntilExpiration = (IF d < 0 THEN Null ELSE d)
           /\ r.alertsNeeded.oneWeek = (3 < d /\ d <= 7 /\ sent.oneWeek = Undefined)
           /\ r.alertsNeeded.threeDays = (1 < d /\ d <= 3 /\ sent.threeDays = Undefined)
           /\ r.alertsNeeded.oneDay = (d = 1 /\ sent.oneDay = Undefined)
           /\ Cardinality({a \in AlertTypes : r.alertsNeeded[a]}) <= 1
           /\ (d = 0 \/ d < 0 \/ d > 7) => {a \in AlertTypes : r.alertsNeeded[a]} = {}
           /\ users' = users]_vars

\* The status of a driver one day from expiration with no alert sent: only
\* the oneDay alert is needed.
C18_Witness ==
  /\ ulast.op = "status"
  /\ HasDriverInfo(ulast.before)
  /\ ulast.before.driverInfo.expirationAlertsSent = NoAlerts
  /\ ulast.before.driverInfo.licenseExpirationDate # Undefined
  /\ DaysUntil(ulast.before.driverInfo.licenseExpirationDate, today, westOfUTC) = 1
  /\ ulast.ret.daysUntilExpiration = 1
  /\ ulast.ret.alertsNeeded = [oneWeek |-> FALSE, threeDays |-> FALSE, oneDay |-> TRUE]

\* The change request i made is in the stored thread: its user is a
\* participant (join), and has confirmed (confirm).
Reflected(i) ==
  LET c == ThreadOf(carpools, reqs[i].carpoolId) IN
  /\ IsParticipant(c, reqs[i].userId)
  /\ c.interestedCount = Len(c.participants)
  /\ reqs[i].op = "confirm" => HasConfirmed(c, reqs[i].userId)

\* Both requests were in flight together, have completed, and each changed
\* the same thread.
BothChangedSameThread ==
  /\ Len(reqs) = 2
  /\ \A i \in Requests : reqs[i].pc = "done" /\ reqs[i].changed
  /\ reqs[1].carpoolId = reqs[2].carpoolId

\* C20 as stated: when two concurrent requests have changed the same thread,
\* the stored thread reflects only the last write, not both changes.
C20_LastWriteWins ==
  BothChangedSameThread => ~(Reflected(1) /\ Reflected(2))

\* C20 as the code behaves: the store call of a handler runs to completion on
\* the array as it is at the call, so whatever the interleaving of two
\* concurrent join or confirm requests, the change of every completed request
\* is in the stored thread.
C20_NoLostUpdate ==
  Len(reqs) = 2 =>
    \A i \in Requests : (reqs[i].pc = "done" /\ reqs[i].changed) => Reflected(i)

\* Two joins by different users on the same thread, handled while both were
\* in flight, and both users are participants.
C20_Witness ==
  /\ BothChangedSameThread
  /\ reqs[1].op = "join" /\ reqs[2].op = "join"
  /\ reqs[1].userId # reqs[2].userId
  /\ Reflected(1) /\ Reflected(2)
  /\ Len(ThreadOf(carpools, reqs[1].carpoolId).participants) = 3

\* C23: a join by a user who is not a participant appends that user without
\* confirmation; the status changes only from OPEN with confirmedCount > 0, to
\* PENDING_CONFIRMATIONS, and is otherwise as before; no join changes
\* confirmedCount.
C23_JoinStatusRule ==
  (last.op = "join" /\ last.code = 200) =>
    /\ Target.confirmedCount = last.before.confirmedCount
    /\ ~IsParticipant(last.before, last.userId) =>
         /\ Target.participants =
              Append(last.before.participants,
                     [userId |-> last.userId, joinedAt |-> now, confirmedAt |-> Undefined,
                      isCreator |-> FALSE])
         /\ Target.interestedCount = last.before.interestedCount + 1
         /\ Target.status =
              (IF last.before.status = "OPEN" /\ last.before.confirmedCount > 0
                 THEN "PENDING_CONFIRMATIONS" ELSE last.before.status)

\* A join of a new user on an OPEN thread nobody has confirmed: it stays OPEN.
C23_Witness ==
  /\ last.op = "join"
  /\ last.code = 200
  /\ ~IsParticipant(last.before, last.userId)
  /\ last.before.status = "OPEN"
  /\ last.before.confirmedCount = 0
  /\ Target.status = "OPEN"
  /\ Len(Target.participants) = 2

\* C24: no confirm call leaves a thread CONFIRMED that it changed, not even
\* the one that brings confirmedCount to targetGroupSize or above; a confirm
\* for a participant who has confirmed changes nothing; a confirm for a user
\* who is no participant fails with not found and changes nothing.
C24_ConfirmNeverLocks ==
  (last.op = "confirm" /\ HadTarget /\ last.userId # Empty) =>
    /\ Target.status = "CONFIRMED" => Target = last.before
    /\ HasConfirmed(last.before, last.userId) => (Target = last.before /\ last.code = 200)
    /\ ~IsParticipant(last.before, last.userId) => (Target = last.before /\ last.code = 404)

\* A confirm that brought confirmedCount up to targetGroupSize: the thread is
\* PENDING_CONFIRMATIONS.
C24_Witness ==
  /\ last.op = "confirm"
  /\ last.code = 200
  /\ last.before.confirmedCount < last.before.targetGroupSize
  /\ Target.confirmedCount >= Target.targetGroupSize
  /\ Target.status = "PENDING_CONFIRMATIONS"

(***************************************************************************)
(* C26: in every state reached by create without a status override, join,  *)
(* confirm, unconfirm, lock and cancel, a thread whose status is OPEN has   *)
(* interestedCount = 1 or confirmedCount = 0: a thread with a second        *)
(* participant and a confirmed participant is never OPEN.                   *)
(***************************************************************************)
C26_OpenThreadShape ==
  \A i \in Threads :
    carpools[i].status = "OPEN" =>
      (carpools[i].interestedCount = 1 \/ carpools[i].confirmedCount = 0)

\* A second participant joined an OPEN thread nobody has confirmed: it stays OPEN.
C26_Witness ==
  /\ last.op = "join" /\ last.code = 200
  /\ Target.status = "OPEN"
  /\ Target.interestedCount = 2
  /\ Target.confirmedCount = 0

(***************************************************************************)
(* C27: in the same states a thread whose status is PENDING_CONFIRMATIONS  *)
(* has confirmedCount >= 1, and an unconfirm call that withdraws a          *)
(* confirmation (a confirmed participant, thread not CONFIRMED) leaves the  *)
(* status OPEN exactly when confirmedCount has come down to 0 and           *)
(* PENDING_CONFIRMATIONS otherwise.                                         *)
(***************************************************************************)
C27_PendingHasConfirmation ==
  /\ \A i \in Threads :
       carpools[i].status = "PENDING_CONFIRMATIONS" => carpools[i].confirmedCount >= 1
  /\ (/\ last.op = "unconfirm" /\ HadTarget
      /\ HasConfirmed(last.before, last.userId)
      /\ last.before.status # "CONFIRMED") =>
       /\ Target.confirmedCount = last.before.confirmedCount - 1
       /\ Target.status = (IF Target.confirmedCount = 0 THEN "OPEN" ELSE "PENDING_CONFIRMATIONS")

\* One of two confirmations was withdrawn: the thread is PENDING_CONFIRMATIONS with one left.
C27_Witness ==
  /\ last.op = "unconfirm" /\ last.code = 200
  /\ last.before.confirmedCount = 2
  /\ Target.confirmedCount = 1
  /\ Target.status = "PENDING_CONFIRMATIONS"

(***************************************************************************)
(* C28: over the calls of the carpool API, the PATCH update among them, a  *)
(* thread's status becomes CONFIRMED only in a lock call and CANCELED only  *)
(* in a cancel call made by the thread's creator, and a thread's id and     *)
(* creatorId never change.                                                  *)
(***************************************************************************)
C28_StatusOnlyByLockAndCancel ==
  [][\A i \in Threads :
       /\ carpools'[i].id = carpools[i].id
       /\ carpools'[i].creatorId = carpools[i].creatorId
       /\ (carpools[i].status # "CONFIRMED" /\ carpools'[i].status = "CONFIRMED") =>
            (last'.op = "lock" /\ last'.userId = carpools[i].creatorId)
       /\ (carpools[i].status # "CANCELED" /\ carpools'[i].status = "CANCELED") =>
            (last'.op = "cancel" /\ last'.userId = carpools[i].creatorId)]_vars

(***************************************************************************)
(* C25: sortCarpoolsBySoonest returns a permutation of the list it is      *)
(* given, in ascending order of date and then of timeWindow.start as        *)
(* strings, with threads of equal date and start in the order they came     *)
(* in, and leaves the list it was given in its order.                       *)
(***************************************************************************)
\* The place in the given list of the i-th returned thread (ids are distinct).
GivenAt(i) == CHOOSE j \in 1..Len(last.given) : last.given[j].id = last.ret[i].id

SameKey(a, b) == a.date = b.date /\ a.timeWindow.start = b.timeWindow.start

\* a is not later than b: an earlier date, or the same date and a start not after b's.
NotLater(a, b) ==
  \/ CollationIndex(a.date) < CollationIndex(b.date)
  \/ /\ a.date = b.date
     /\ CollationIndex(a.timeWindow.start) <= CollationIndex(b.timeWindow.start)

C25_SortBySoonest ==
  last.op = "list" =>
    /\ Len(last.ret) = Len(last.given)
    /\ \A i \in 1..Len(last.ret) :
         /\ \E j \in 1..Len(last.given) : last.given[j].id = last.ret[i].id
         /\ last.ret[i] = last.given[GivenAt(i)]
    /\ \A i, j \in 1..Len(last.ret) : i < j =>
         /\ GivenAt(i) # GivenAt(j)
         /\ NotLater(last.ret[i], last.ret[j])
         /\ SameKey(last.ret[i], last.ret[j]) => GivenAt(i) < GivenAt(j)
    /\ last.before = last.given

\* Three threads listed in another order than stored: two with the same date and
\* start kept in their order, and a "9:00" start after a "16:30" start of the same date.
C25_Witness ==
  /\ last.op = "list"
  /\ Len(last.ret) = 3
  /\ last.ret # last.given
  /\ SameKey(last.ret[1], last.ret[2])
  /\ last.ret[2].timeWindow.start = "16:30"
  /\ last.ret[3].timeWindow.start = "9:00"
  /\ last.ret[3].date = last.ret[2].date

(***************************************************************************)
(* C29: in every state reached by createUser, enableDriverCapability,      *)
(* updateDriverLicenseDetails, verifyStoredLicense and                      *)
(* updateDriverAvailability, a user whose isDriverAvailable is true has a   *)
(* DriverInfo, and a user who had a DriverInfo before a call has one after  *)
(* it.                                                                      *)
(***************************************************************************)
C29_AvailableHasDriverInfo ==
  /\ \A i \in 1..Len(users) :
       users[i].isDriverAvailable => users[i].driverInfo # NoDriverInfo
  /\ HasDriverInfo(ulast.before) => HasDriverInfo(UserTarget)

\* A driver who was unavailable turned availability on.
C29_Witness ==
  /\ ulast.op = "toggleOn" /\ ulast.code = 200
  /\ HasDriverInfo(ulast.before)
  /\ ~ulast.before.isDriverAvailable
  /\ UserTarget.isDriverAvailable
  /\ HasDriverInfo(UserTarget)

(***************************************************************************)
(* C22: a call of createUser, enableDriverCapability,                      *)
(* updateDriverLicenseDetails or updateDriverAvailability that raises an    *)
(* error or returns none leaves the users list (every user's driverInfo     *)
(* and isDriverAvailable with it) and the campuses list as they were.       *)
(***************************************************************************)
C22_FailedUserCallsChangeNothing ==
  [][(/\ now' # now
      /\ ulast'.op \in {"createUser", "enable", "update", "toggleOn", "toggleOff"}
      /\ ulast'.ret = 0) =>
       (users' = users /\ campuses' = campuses)]_vars

(***************************************************************************)
(* C21: the routes answer by kind of outcome.  The driver enable and       *)
(* toggle routes answer 409 when the user has driver capability already,    *)
(* 400 for a validation failure, 404 for a user who is not found, and 500   *)
(* for none of the errors the store functions raise on purpose; the         *)
(* carpool lock and confirm routes answer 400 for a body without the        *)
(* caller's id and 404 for a thread that is not found, and never 500.       *)
(***************************************************************************)
C21_OutcomeKindsMapToStatus ==
  /\ ulast.op \in {"enableRoute", "toggleOn", "toggleOff"} =>
       /\ ulast.code # 500
       /\ ulast.error = "User already has driver capability enabled" => ulast.code = 409
       /\ ulast.error \in {"Legal name is required", "License upload is required",
                           "License number is required", "Expiration date is required",
                           "Expiration date is outside the accepted window",
                           "Issuing state is not recognized"} => ulast.code = 400
       /\ (ulast.before = NoUser /\ ulast.error = Empty) => ulast.code = 404
  /\ last.op \in {"lock", "confirm"} =>
       /\ last.code # 500
       /\ last.userId = Empty => last.code = 400
       /\ (last.userId # Empty /\ ~HadTarget) => last.code = 404

(***************************************************************************)
(* C30: getSession returns a session only for a token createSession        *)
(* issued, that was not passed to deleteSession, at an instant not past     *)
(* the session's expiresAt, and it returns the session as issued; once a    *)
(* token was deleted or answered with null, getSession answers null for it; *)
(* the cleanup in createSession removes only sessions whose expiresAt lies  *)
(* before the instant of the call.                                          *)
(***************************************************************************)
C30_SessionValidity ==
  /\ slast.op = "getSession" =>
       /\ slast.ret # NoSession =>
            /\ slast.token \in DOMAIN slast.issued
            /\ slast.ret = slast.issued[slast.token]
            /\ slast.token \notin slast.gone
            /\ slast.at <= slast.ret.expiresAt
       /\ slast.wasGone => slast.ret = NoSession
  /\ slast.op = "createSession" =>
       /\ slast.token \in DOMAIN sessions
       /\ \A k \in DOMAIN slast.before :
            k \notin DOMAIN sessions => slast.before[k].expiresAt < slast.at

\* A token that was answered with null once its session had expired is asked for again.
C30_Witness ==
  /\ slast.op = "getSession"
  /\ slast.token \in DOMAIN slast.issued
  /\ slast.issued[slast.token].expiresAt < slast.at
  /\ slast.wasGone
  /\ slast.ret = NoSession
====
